---- MODULE Spec2Model ----
(***************************************************************************)
(* Model of the AI Reader plugin core: the Session Store (SessionManager), *)
(* the non-streaming chat path of LLMClient with its retry loop, and the   *)
(* streaming path of LLMClient with its cancellation handle.               *)
(*                                                                         *)
(* The specifications share the module, one per component:                 *)
(*   SpecSession  - SessionManager                                         *)
(*   SpecChat     - LLMClient.chat / sendRequestWithRetry                  *)
(*   SpecStream   - LLMClient.streamChat / abortStream / isStreaming       *)
(*   SpecClient   - LLMClient.chat and streamChat on one client            *)
(*   SpecTest     - LLMClient.testConnection / updateOptions               *)
(*   SpecConfig   - ConfigManager                                          *)
(*   SpecTemplates - ConfigManager: legacy and prompt templates            *)
(*   SpecPrompt   - ConfigManager: the prompt template list                *)
(*   SpecMarkdown - MarkdownRenderer.render                                *)
(*   SpecLists    - MarkdownRenderer.render on texts of list lines         *)
(*   SpecRules    - MarkdownRenderer.render on texts of rule lines         *)
(*   SpecLinks    - MarkdownRenderer.render on texts with links            *)
(*   SpecPanel    - ReaderPanelManager: the panels and the shared client   *)
(***************************************************************************)
EXTENDS Integers, Sequences, FiniteSets, TLC

VARIABLES
    \* ---- SessionManager ----
    sessions,      \* Map<number, SessionContext>
    now,           \* Date.now()
    nextMsgId,     \* id of the next ChatMessage stored (ids are unique and increasing)
    appended,      \* history: per item, every message appended to the live session
    lastOp,        \* history: the last SessionManager call (and what getSession returned)
    \* ---- LLMClient.chat ----
    chatPc,        \* position of the chat() call
    retries,       \* parameter `retries` of sendRequestWithRetry
    outcomes,      \* history: outcome of every sendRequest of this chat() call
    delays,        \* history: every delay(ms) awaited by this chat() call
    chatResult,    \* how the promise of chat() settled
    \* ---- LLMClient streaming ----
    abortController, \* this.abortController: 0 is null, c is the controller of call c
    calls,           \* one record per streamChat call
    microtasks,      \* FIFO of streamChat calls whose await continuation is queued
    \* ---- LLMClient.testConnection ----
    timeout,         \* this.options.timeout
    tests,           \* one record per testConnection call
    \* ---- ConfigManager ----
    prefs,           \* Zotero.Prefs under extensions.aireader.
    config,          \* this.config
    promptTemplates, \* this.config.promptTemplates
    cfgLast,         \* history: the last ConfigManager call
    cfgOps,          \* number of ConfigManager calls made
    \* ---- MarkdownRenderer ----
    mdOptions,       \* this.options
    mdInput,         \* the argument of render()
    mdHtml,          \* the local html of render()
    mdStage,         \* number of stages of render() done (11: returned)
    \* ---- ReaderPanelManager ----
    llmClient,       \* Zotero.AIReader.getLLMClient() is not null
    streamingStates, \* Map<number, boolean>
    sendDisabled,    \* per panel: sendBtn.disabled
    sends,           \* one record per sendToLLM call
    panelController, \* abortController of the shared client: 0 is null
    continuations    \* FIFO of sendToLLM calls whose await continuation is queued

sessVars   == <<sessions, now, nextMsgId, appended, lastOp>>
chatVars   == <<chatPc, retries, outcomes, delays, chatResult>>
streamVars == <<abortController, calls, microtasks>>
testVars   == <<timeout, tests>>
cfgVars    == <<prefs, config, promptTemplates, cfgLast, cfgOps>>
mdVars     == <<mdOptions, mdInput, mdHtml, mdStage>>
panelVars  == <<llmClient, streamingStates, sendDisabled, sends, panelController,
                continuations>>
vars       == <<sessVars, chatVars, streamVars, testVars, cfgVars, mdVars, panelVars>>

\* what the actions of one component leave alone
notSessVars   == <<chatVars, streamVars, testVars, cfgVars, mdVars, panelVars>>
notChatVars   == <<sessVars, calls, microtasks, testVars, cfgVars, mdVars, panelVars>>
notStreamVars == <<sessVars, chatVars, testVars, cfgVars, mdVars, panelVars>>
notTestVars   == <<sessVars, chatVars, streamVars, cfgVars, mdVars, panelVars>>
notCfgVars    == <<sessVars, chatVars, streamVars, testVars, mdVars, panelVars>>
notMdVars     == <<sessVars, chatVars, streamVars, testVars, cfgVars, panelVars>>
notPanelVars  == <<sessVars, chatVars, streamVars, testVars, cfgVars, mdVars>>

Max(a, b) == IF a > b THEN a ELSE b
Min(a, b) == IF a < b THEN a ELSE b

(***************************************************************************)
(* Bounds of the model                                                     *)
(***************************************************************************)
MaxAppends == 4     \* addMessage calls explored
MaxClock   == 2     \* clock ticks explored
MaxCalls   == 2     \* streamChat calls explored
MaxTests   == 2     \* testConnection calls explored
MaxCfgOps  == 3     \* ConfigManager calls explored
MaxLines   == 3     \* lines of a Markdown text rendered
MaxSends   == 3     \* messages sent from the panels

(***************************************************************************)
(*                           SessionManager                                *)
(***************************************************************************)
\* The cap is 100 in the source; the model scales it to 3 so that every
\* branch of the cap enforcement (no system message, some, cap-many, more)
\* is reached within MaxAppends appends.  The code depends on the cap only
\* through comparisons and the slice index below.
MAX_MESSAGES_PER_SESSION == 3
\* 3600000 ms (1 hour) in the source; one clock tick of the model is one hour.
SESSION_TIMEOUT_MS == 1

ItemIDs == {1, 2}
Roles   == {"user", "assistant", "system"}

\* a SessionContext; the texts of summary and keyPoints are not modelled
Absent == [present |-> FALSE, messages |-> <<>>, lastUpdated |-> 0]

\* Array.prototype.filter(m => m.role === 'system')
RECURSIVE FilterSystem(_)
FilterSystem(ms) ==
    IF ms = <<>> THEN <<>>
    ELSE IF Head(ms).role = "system"
         THEN <<Head(ms)>> \o FilterSystem(Tail(ms))
         ELSE FilterSystem(Tail(ms))

\* Array.prototype.slice(start): a negative start counts from the end, -0 is 0
Slice(ms, start) ==
    LET len  == Len(ms)
        from == IF start < 0 THEN Max(len + start, 0) ELSE Min(start, len)
    IN  SubSeq(ms, from + 1, len)

\* EnforceLimit with the two parts in the other order (the system messages
\* after the recent ones)
EnforceLimit_SystemLast(ms) ==
    IF Len(ms) > MAX_MESSAGES_PER_SESSION
    THEN LET systemMessages == FilterSystem(ms)
             recentMessages == Slice(ms, (0 - MAX_MESSAGES_PER_SESSION) + Len(systemMessages))
         IN  recentMessages \o systemMessages
    ELSE ms

\* the cap enforcement of addMessage
EnforceLimit(ms) ==
    IF Len(ms) > MAX_MESSAGES_PER_SESSION
    THEN LET systemMessages == FilterSystem(ms)
             recentMessages == Slice(ms, (0 - MAX_MESSAGES_PER_SESSION) + Len(systemMessages))
         IN  systemMessages \o recentMessages
    ELSE ms

\* Expired with the comparison off by one (a session expires at the timeout)
Expired_AtTimeout(s, t) == s.present /\ t - s.lastUpdated >= SESSION_TIMEOUT_MS

\* the timeout test of getSession
Expired(s, t) == s.present /\ t - s.lastUpdated > SESSION_TIMEOUT_MS

\* what getSession returns: the session, or undefined because it is missing
\* or because it expired (and was removed)
GetResult(id) ==
    IF ~sessions[id].present THEN "missing"
    ELSE IF Expired(sessions[id], now) THEN "expired"
    ELSE "found"

\* the session map after getSession(id): an expired session is removed
AfterGet(id) ==
    IF Expired(sessions[id], now) THEN [sessions EXCEPT ![id] = Absent] ELSE sessions

\* lastOp after any call other than createSession and getSession
OtherOp == [op |-> "other", id |-> 0, result |-> "none"]

CreateSession(id) ==
    /\ sessions' = [sessions EXCEPT ![id] =
                       [present |-> TRUE, messages |-> <<>>, lastUpdated |-> now]]
    /\ appended' = [appended EXCEPT ![id] = <<>>]
    /\ lastOp' = [op |-> "createSession", id |-> id, result |-> "none"]
    /\ UNCHANGED <<now, nextMsgId, notSessVars>>

GetSession(id) ==
    /\ sessions' = AfterGet(id)
    /\ appended' = IF GetResult(id) = "expired"
                   THEN [appended EXCEPT ![id] = <<>>] ELSE appended
    /\ lastOp' = [op |-> "getSession", id |-> id, result |-> GetResult(id)]
    /\ UNCHANGED <<now, nextMsgId, notSessVars>>

AddMessage(id, role) ==
    /\ nextMsgId <= MaxAppends
    /\ LET message == [id |-> nextMsgId, role |-> role]
       IN  IF GetResult(id) = "found"
           THEN /\ sessions' = [sessions EXCEPT
                       ![id].messages = EnforceLimit(Append(@, message)),
                       ![id].lastUpdated = now]
                /\ appended' = [appended EXCEPT ![id] = Append(@, message)]
                /\ nextMsgId' = nextMsgId + 1
           ELSE /\ sessions' = AfterGet(id)
                /\ appended' = [appended EXCEPT ![id] = <<>>]
                /\ UNCHANGED nextMsgId
    /\ lastOp' = OtherOp
    /\ UNCHANGED <<now, notSessVars>>

UpdateSummary(id) ==
    /\ IF GetResult(id) = "found"
       THEN /\ sessions' = [sessions EXCEPT ![id].lastUpdated = now]
            /\ UNCHANGED appended
       ELSE /\ sessions' = AfterGet(id)
            /\ appended' = [appended EXCEPT ![id] = <<>>]
    /\ lastOp' = OtherOp
    /\ UNCHANGED <<now, nextMsgId, notSessVars>>

UpdateKeyPoints(id) ==
    /\ IF GetResult(id) = "found"
       THEN /\ sessions' = [sessions EXCEPT ![id].lastUpdated = now]
            /\ UNCHANGED appended
       ELSE /\ sessions' = AfterGet(id)
            /\ appended' = [appended EXCEPT ![id] = <<>>]
    /\ lastOp' = OtherOp
    /\ UNCHANGED <<now, nextMsgId, notSessVars>>

RemoveSession(id) ==
    /\ sessions' = [sessions EXCEPT ![id] = Absent]
    /\ appended' = [appended EXCEPT ![id] = <<>>]
    /\ lastOp' = OtherOp
    /\ UNCHANGED <<now, nextMsgId, notSessVars>>

ClearAll ==
    /\ sessions' = [id \in ItemIDs |-> Absent]
    /\ appended' = [id \in ItemIDs |-> <<>>]
    /\ lastOp' = OtherOp
    /\ UNCHANGED <<now, nextMsgId, notSessVars>>

\* the wall clock advances between two calls
Tick ==
    /\ now < MaxClock
    /\ now' = now + 1
    /\ UNCHANGED <<sessions, nextMsgId, appended, lastOp, notSessVars>>

SessInit ==
    /\ sessions = [id \in ItemIDs |-> Absent]
    /\ now = 0
    /\ nextMsgId = 1
    /\ appended = [id \in ItemIDs |-> <<>>]
    /\ lastOp = OtherOp

SessNext ==
    \/ \E id \in ItemIDs : CreateSession(id)
    \/ \E id \in ItemIDs : GetSession(id)
    \/ \E id \in ItemIDs, role \in Roles : AddMessage(id, role)
    \/ \E id \in ItemIDs : UpdateSummary(id)
    \/ \E id \in ItemIDs : UpdateKeyPoints(id)
    \/ \E id \in ItemIDs : RemoveSession(id)
    \/ ClearAll
    \/ Tick

(***************************************************************************)
(*                     properties of SessionManager                        *)
(***************************************************************************)
\* C1: after every addMessage the live session holds at most
\* MAX_MESSAGES_PER_SESSION messages, and every system message ever appended
\* to it is still present.
C1_CapAndSystemKept ==
    \A id \in ItemIDs :
        sessions[id].present =>
            /\ Len(sessions[id].messages) <= MAX_MESSAGES_PER_SESSION
            /\ \A i \in 1..Len(appended[id]) :
                   appended[id][i].role = "system" =>
                       \E j \in 1..Len(sessions[id].messages) :
                           sessions[id].messages[j] = appended[id][i]

\* C8: getSession(id) returns the session exactly when it is present and its
\* age does not exceed the timeout (and then leaves it in place); otherwise
\* it returns not-found and the session is gone; a session that is gone comes
\* back only through createSession(id).
C8_ExpireOnAccess ==
    [][ /\ \A id \in ItemIDs :
              (lastOp'.op = "getSession" /\ lastOp'.id = id /\ now' = now) =>
                  /\ (lastOp'.result = "found") <=>
                         (sessions[id].present
                            /\ now - sessions[id].lastUpdated <= SESSION_TIMEOUT_MS)
                  /\ lastOp'.result = "found" => sessions'[id] = sessions[id]
                  /\ lastOp'.result # "found" => ~sessions'[id].present
        /\ \A id \in ItemIDs :
              (~sessions[id].present /\ sessions'[id].present) =>
                  (lastOp'.op = "createSession" /\ lastOp'.id = id)
      ]_vars

\* C8 witness: a getSession call found the session expired and removed it
C8_Witness ==
    /\ lastOp.op = "getSession"
    /\ lastOp.result = "expired"
    /\ ~sessions[lastOp.id].present

\* C9: the messages retained in a session are in the order in which they were
\* appended (message ids are handed out in append order).
C9_InsertionOrder ==
    \A id \in ItemIDs :
        \A i, j \in 1..Len(sessions[id].messages) :
            i < j => sessions[id].messages[i].id <= sessions[id].messages[j].id

\* C21: each appended message occurs at most once in the messages of a
\* session (cap enforcement never duplicates a message).
C21_NoDuplicate ==
    \A id \in ItemIDs :
        \A i, j \in 1..Len(sessions[id].messages) :
            i < j => sessions[id].messages[i] # sessions[id].messages[j]

\* C30: the message appended last to a live session is the last element of
\* the session's messages, whatever the number of system messages in it
\* (cap enforcement never evicts the message just appended).
C30_AppendedIsLast ==
    \A id \in ItemIDs :
        (sessions[id].present /\ appended[id] # <<>>) =>
            /\ sessions[id].messages # <<>>
            /\ sessions[id].messages[Len(sessions[id].messages)]
                   = appended[id][Len(appended[id])]

\* C30 witness: the cap was enforced on a session that holds more system
\* messages than the cap (the slice index is then positive), and the
\* message just appended is the last one
C30_Witness ==
    \E id \in ItemIDs :
        /\ sessions[id].present
        /\ Len(appended[id]) > MAX_MESSAGES_PER_SESSION
        /\ Len(FilterSystem(appended[id])) > MAX_MESSAGES_PER_SESSION
        /\ sessions[id].messages[Len(sessions[id].messages)]
               = appended[id][Len(appended[id])]

(***************************************************************************)
(*                 LLMClient.chat: the non-streaming path                  *)
(***************************************************************************)
MAX_RETRIES    == 3
RETRY_DELAY_MS == 1000

\* What the XMLHttpRequest of fetchWithZotero can report: onload with a status
\* and a body, onerror, or ontimeout.  The body matters only for a 2xx status.
Transports ==
    {[ev |-> "load", status |-> 200, body |-> b] : b \in {"content", "noChoices", "notJson"}}
      \cup {[ev |-> "load", status |-> st, body |-> "none"] : st \in {401, 403, 500}}
      \cup {[ev |-> "error", status |-> 0, body |-> "none"],
            [ev |-> "timeout", status |-> 0, body |-> "none"]}

\* fetchWithZotero: resolves with the body on 2xx, rejects otherwise
FetchWithZotero(t) ==
    IF t.ev = "load"
    THEN IF t.status >= 200 /\ t.status < 300
         THEN "resolve"
         ELSE IF t.status = 401 THEN "HTTP 401"
         ELSE IF t.status = 403 THEN "HTTP 403"
         ELSE "HTTP 500"
    ELSE IF t.ev = "error" THEN "Network error"
    ELSE "Request timeout"

\* sendRequest: "ok" when a response with a choice came back, else the message
\* of the error it throws
SendRequest(t) ==
    IF FetchWithZotero(t) = "resolve"
    THEN IF t.body = "notJson" THEN "SyntaxError"
         ELSE IF t.body = "noChoices" THEN "No response from LLM"
         ELSE "ok"
    ELSE FetchWithZotero(t)

\* ShouldRetry with one retry fewer
ShouldRetry_OneFewer(r, t) == r + 1 < MAX_RETRIES

\* ShouldRetry that gives up on an authorization failure
ShouldRetry_NotAuth(r, t) == r < MAX_RETRIES /\ t.status \notin {401, 403}

\* the test of the catch block of sendRequestWithRetry; the caught error
\* (here the transport outcome t that caused it) is not looked at
ShouldRetry(r, t) == r < MAX_RETRIES

NoResult == [status |-> "none", error |-> "none"]

\* ControllerAfterChat as the streaming path ends a call: the controller is
\* dropped
ControllerAfterChat_Dropped(controller) == 0

\* this.abortController after a step of chat(): chat, sendRequestWithRetry,
\* sendRequest and fetchWithZotero take no signal and assign no controller
ControllerAfterChat(controller) == controller

\* chat(messages) is called: sendRequestWithRetry(messages, 0)
ChatCall ==
    /\ chatPc \in {"idle", "done"}
    /\ chatPc' = "sending"
    /\ retries' = 0
    /\ outcomes' = <<>>
    /\ delays' = <<>>
    /\ chatResult' = NoResult
    /\ abortController' = ControllerAfterChat(abortController)
    /\ UNCHANGED <<notChatVars>>

\* one sendRequest settles with transport outcome t
ChatAttempt(t) ==
    /\ chatPc = "sending"
    /\ outcomes' = Append(outcomes, t)
    /\ IF SendRequest(t) = "ok"
       THEN /\ chatPc' = "done"
            /\ chatResult' = [status |-> "resolved", error |-> "none"]
            /\ UNCHANGED delays
       ELSE IF ShouldRetry(retries, t)
       THEN /\ chatPc' = "waiting"
            /\ delays' = Append(delays, RETRY_DELAY_MS * (retries + 1))
            /\ UNCHANGED chatResult
       ELSE /\ chatPc' = "done"
            /\ chatResult' = [status |-> "rejected", error |-> SendRequest(t)]
            /\ UNCHANGED delays
    /\ abortController' = ControllerAfterChat(abortController)
    /\ UNCHANGED <<retries, notChatVars>>

\* the delay before a retry has elapsed: sendRequestWithRetry(messages, retries + 1)
ChatDelayElapsed ==
    /\ chatPc = "waiting"
    /\ chatPc' = "sending"
    /\ retries' = retries + 1
    /\ abortController' = ControllerAfterChat(abortController)
    /\ UNCHANGED <<outcomes, delays, chatResult, notChatVars>>

ChatInit ==
    /\ chatPc = "idle"
    /\ retries = 0
    /\ outcomes = <<>>
    /\ delays = <<>>
    /\ chatResult = NoResult

ChatNext ==
    \/ ChatCall
    \/ \E t \in Transports : ChatAttempt(t)
    \/ ChatDelayElapsed

(***************************************************************************)
(*                     properties of LLMClient.chat                        *)
(***************************************************************************)
Failed(t) == SendRequest(t) # "ok"
AllFailed == \A i \in 1..Len(outcomes) : Failed(outcomes[i])
IsAuth(t) == t.ev = "load" /\ t.status \in {401, 403}

C10_AuthNotRetried ==
    (Len(outcomes) >= 1 /\ IsAuth(outcomes[1])) =>
        (Len(outcomes) = 1 /\ chatResult.status = "rejected")

\* C10 as amended: a 401 or 403 failure is retried like any other failure:
\* after it chat() stays pending (waiting, then sending again) as long as
\* fewer than 4 requests were made, and rejects with it only on the 4th.
C10_AuthRetried ==
    (Len(outcomes) >= 1 /\ IsAuth(outcomes[Len(outcomes)])) =>
        IF Len(outcomes) < 4
        THEN chatResult.status = "none" /\ chatPc \in {"waiting", "sending"}
        ELSE chatResult.status = "rejected"
               /\ chatResult.error \in {"HTTP 401", "HTTP 403"}

\* C10 witness: four requests, each answered 401 or 403, then the rejection
C10_Witness ==
    /\ Len(outcomes) = 4
    /\ \A i \in 1..4 : IsAuth(outcomes[i])
    /\ chatResult.status = "rejected"

(***************************************************************************)
(*                 LLMClient.streamChat: the streaming path                *)
(***************************************************************************)
\* A response body is a sequence of characters.  "P" stands for the six
\* characters `data: `, "D" for `[DONE]`, "N" for a newline, "_" for a
\* blank; the JSON text of a frame whose choices[0].delta.content is the
\* string w is written "{" w "}" (so "{" "}" is a frame without content);
\* any other text after "P" is not JSON.
Letters == {"a", "b", "c"}

Body1 == <<"P", "{", "a", "}", "N", "P", "{", "b", "}">>
Body2 == <<"P", "x", "N", "P", "_", "{", "c", "}", "N", "P", "D", "N">>
Bodies == {Body1, Body2, <<>>}
Statuses == {200, 500}

\* String.prototype.trim on the payload: blanks off both ends
RECURSIVE TrimLeft(_)
TrimLeft(w) == IF w # <<>> /\ Head(w) = "_" THEN TrimLeft(Tail(w)) ELSE w
RECURSIVE TrimRight(_)
TrimRight(w) ==
    IF w # <<>> /\ w[Len(w)] = "_" THEN TrimRight(SubSeq(w, 1, Len(w) - 1)) ELSE w
Trim(w) == TrimRight(TrimLeft(w))

\* JSON.parse(data).choices?.[0]?.delta?.content of a payload: the content,
\* or the empty string when the payload is not JSON (the exception is
\* swallowed) or has no content; `if (content)` skips both
DeltaContent(data) ==
    IF /\ Len(data) >= 2
       /\ data[1] = "{"
       /\ data[Len(data)] = "}"
       /\ \A i \in 2..(Len(data) - 1) : data[i] \in Letters
    THEN SubSeq(data, 2, Len(data) - 1)
    ELSE <<>>

\* the delta a line yields: lines that do not start with `data: ` and the
\* [DONE] sentinel yield none
LineDelta(line) ==
    IF line # <<>> /\ Head(line) = "P"
    THEN LET data == Trim(Tail(line))
         IN  IF data = <<"D">> THEN <<>> ELSE DeltaContent(data)
    ELSE <<>>

\* newData.split('\n'): the lines of newData, each with the offset in the
\* whole response at which it starts (base is the offset of newData)
RECURSIVE SplitLines(_, _)
SplitLines(data, base) ==
    IF \E k \in 1..Len(data) : data[k] = "N"
    THEN LET k == CHOOSE k \in 1..Len(data) :
                      data[k] = "N" /\ \A j \in 1..(k - 1) : data[j] # "N"
         IN  <<[text |-> SubSeq(data, 1, k - 1), at |-> base]>>
                 \o SplitLines(SubSeq(data, k + 1, Len(data)), base + k)
    ELSE <<[text |-> data, at |-> base]>>

\* the onChunk calls that one onprogress notification makes, in order
RECURSIVE ChunkEvents(_)
ChunkEvents(lines) ==
    IF lines = <<>> THEN <<>>
    ELSE IF LineDelta(Head(lines).text) # <<>>
         THEN <<[ev |-> "chunk", text |-> LineDelta(Head(lines).text), at |-> Head(lines).at]>>
                  \o ChunkEvents(Tail(lines))
         ELSE ChunkEvents(Tail(lines))

\* AdvanceProcessed that leaves lastProcessedLength where it was
AdvanceProcessed_Stale(old, len) == old

\* lastProcessedLength = xhr.responseText.length
AdvanceProcessed(old, len) == len

\* Accumulate that keeps only the last delta
Accumulate_Overwrite(fullText, content) == content

\* fullText += content
Accumulate(fullText, content) == fullText \o content

\* fullText after the chunk events of one notification
RECURSIVE AccumulateAll(_, _)
AccumulateAll(fullText, events) ==
    IF events = <<>> THEN fullText
    ELSE AccumulateAll(Accumulate(fullText, Head(events).text), Tail(events))

CallIds == 1..Len(calls)
InFlight(c) == calls[c].phase = "open"

\* isStreaming()
isStreaming == abortController # 0

\* The record of a call holds the locals of its fetchWithZoteroStreamSimple
\* closure (lastProcessedLength, fullText); no handler of the xhr runs once
\* the request has ended, so they are cleared then.
\* streamChat(messages, callbacks): a new AbortController replaces
\* this.abortController, onStart is called, the request is sent; the server
\* will answer with body b
StreamChat(b) ==
    /\ Len(calls) < MaxCalls
    /\ calls' = Append(calls,
                  [phase |-> "open", body |-> b, lastProcessedLength |-> 0,
                   fullText |-> <<>>, status |-> 0,
                   log |-> <<[ev |-> "start", text |-> <<>>, at |-> 0]>>,
                   abortSeen |-> FALSE, lateCallback |-> FALSE])
    /\ abortController' = Len(calls) + 1
    /\ UNCHANGED <<microtasks, notStreamVars>>

\* abortStream(): aborts the controller held, if any, and drops it.  The
\* abort listener of the call that owns the controller aborts its xhr and
\* rejects its promise with an AbortError (without effect when the promise
\* is already settled).  abortSeen records that abortStream() was called
\* while the call was the only one in flight.
AbortStream ==
    /\ Len(calls) >= 1
    /\ LET c == abortController
           hit == c # 0 /\ InFlight(c)
           sole == {d \in CallIds : InFlight(d) /\ \A e \in CallIds : InFlight(e) => e = d}
       IN  /\ calls' = [d \in CallIds |->
                  [calls[d] EXCEPT
                     !.phase = IF hit /\ d = c THEN "pendAbort" ELSE @,
                     !.lastProcessedLength = IF hit /\ d = c THEN 0 ELSE @,
                     !.fullText = IF hit /\ d = c THEN <<>> ELSE @,
                     !.abortSeen = @ \/ d \in sole]]
           /\ microtasks' = IF hit THEN Append(microtasks, c) ELSE microtasks
    /\ abortController' = 0
    /\ UNCHANGED <<notStreamVars>>

\* xhr.onprogress of call c: k more characters of the body have arrived
XhrProgress(c, k) ==
    /\ microtasks = <<>>
    /\ InFlight(c)
    /\ LET call    == calls[c]
           len     == call.lastProcessedLength + k
           newData == SubSeq(call.body, call.lastProcessedLength + 1, len)
           events  == ChunkEvents(SplitLines(newData, call.lastProcessedLength))
       IN  /\ len <= Len(call.body)
           /\ calls' = [calls EXCEPT
                  ![c].lastProcessedLength = AdvanceProcessed(@, len),
                  ![c].fullText = AccumulateAll(@, events),
                  ![c].log = @ \o events]
    /\ UNCHANGED <<abortController, microtasks, notStreamVars>>

\* xhr.onload of call c, after the whole body was notified: onComplete and
\* resolve on a 2xx status, else onError and reject
XhrLoad(c, st) ==
    /\ microtasks = <<>>
    /\ InFlight(c)
    /\ calls[c].lastProcessedLength = Len(calls[c].body)
    /\ calls' = [calls EXCEPT
           ![c].status = st,
           ![c].lastProcessedLength = 0,
           ![c].fullText = <<>>,
           ![c].phase = IF st >= 200 /\ st < 300 THEN "pendResolve" ELSE "pendReject",
           ![c].log = IF st >= 200 /\ st < 300
                      THEN Append(@, [ev |-> "complete", text |-> calls[c].fullText, at |-> 0])
                      ELSE Append(@, [ev |-> "error", text |-> <<>>, at |-> 0]),
           ![c].lateCallback = calls[c].abortSeen]
    /\ microtasks' = Append(microtasks, c)
    /\ UNCHANGED <<abortController, notStreamVars>>

\* xhr.onerror, and likewise xhr.ontimeout, of call c: onError and reject
XhrError(c) ==
    /\ microtasks = <<>>
    /\ InFlight(c)
    /\ calls' = [calls EXCEPT
           ![c].phase = "pendReject",
           ![c].lastProcessedLength = 0,
           ![c].fullText = <<>>,
           ![c].log = Append(@, [ev |-> "error", text |-> <<>>, at |-> 0]),
           ![c].lateCallback = calls[c].abortSeen]
    /\ microtasks' = Append(microtasks, c)
    /\ UNCHANGED <<abortController, notStreamVars>>

\* streamChat of the call at the head of the microtask queue resumes after
\* its await: it returns (resolved, or an AbortError was caught), or it calls
\* onError and rethrows; finally it sets this.abortController to null
Resume ==
    /\ microtasks # <<>>
    /\ LET c == Head(microtasks)
       IN  calls' = [calls EXCEPT
               ![c].phase = IF @ = "pendReject" THEN "rejected" ELSE "resolved",
               ![c].log = IF calls[c].phase = "pendReject"
                          THEN Append(@, [ev |-> "error", text |-> <<>>, at |-> 0])
                          ELSE @]
    /\ microtasks' = Tail(microtasks)
    /\ abortController' = 0
    /\ UNCHANGED <<notStreamVars>>

StreamInit ==
    /\ abortController = 0
    /\ calls = <<>>
    /\ microtasks = <<>>

StreamNext ==
    \/ \E b \in Bodies : StreamChat(b)
    \/ AbortStream
    \/ \E c \in CallIds : \E k \in 1..Len(calls[c].body) : XhrProgress(c, k)
    \/ \E c \in CallIds, st \in Statuses : XhrLoad(c, st)
    \/ \E c \in CallIds : XhrError(c)
    \/ Resume

(***************************************************************************)
(*                  properties of LLMClient.streamChat                     *)
(***************************************************************************)
\* C3: a client never has two streams in flight (a streamChat call made
\* while an earlier one is in flight cancels the earlier one first).
C3_AtMostOneInFlight ==
    Cardinality({c \in CallIds : InFlight(c)}) <= 1

\* C4: whenever no continuation is pending, isStreaming() is true exactly
\* when some streamChat call of the client is in flight.
C4_IsStreamingIffInFlight ==
    microtasks = <<>> => (isStreaming <=> \E c \in CallIds : InFlight(c))

\* C5: a call that was in flight (alone) when abortStream() was called gets
\* no onComplete and no onError afterwards, and its promise does not reject.
C5_AbortSilences ==
    \A c \in CallIds :
        calls[c].abortSeen =>
            (~calls[c].lateCallback /\ calls[c].phase \notin {"pendReject", "rejected"})

ChunkIndexes(c) == {i \in 1..Len(calls[c].log) : calls[c].log[i].ev = "chunk"}

\* C6: for every call, onStart is the first callback and is not repeated;
\* each onChunk delivers a delta decoded from a piece of the body, and the
\* pieces of successive onChunk calls lie at increasing offsets of the body;
\* no onChunk follows onComplete.
C6_CallbackOrder ==
    \A c \in CallIds :
        LET log == calls[c].log
            body == calls[c].body
        IN  /\ log[1].ev = "start"
            /\ \A i \in 2..Len(log) : log[i].ev # "start"
            /\ \A i \in ChunkIndexes(c) :
                   \E n \in 1..(Len(body) - log[i].at) :
                       /\ log[i].text = LineDelta(SubSeq(body, log[i].at + 1, log[i].at + n))
                       /\ \A j \in ChunkIndexes(c) : i < j => log[i].at + n <= log[j].at
            /\ \A i, j \in 1..Len(log) :
                   (i < j /\ log[i].ev = "complete") => log[j].ev # "chunk"

\* C6 witness: a call that delivered two deltas in body order, then completed
C6_Witness ==
    \E c \in CallIds :
        /\ Len(calls[c].log) = 4
        /\ calls[c].log[2].ev = "chunk" /\ calls[c].log[2].text = <<"a">>
        /\ calls[c].log[3].ev = "chunk" /\ calls[c].log[3].text = <<"b">>
        /\ calls[c].log[4].ev = "complete"

\* the concatenation of the texts passed to onChunk, in call order
RECURSIVE ChunkText(_)
ChunkText(log) ==
    IF log = <<>> THEN <<>>
    ELSE (IF Head(log).ev = "chunk" THEN Head(log).text ELSE <<>>) \o ChunkText(Tail(log))

CompleteIndexes(c) == {i \in 1..Len(calls[c].log) : calls[c].log[i].ev = "complete"}

\* C7: a call whose request finished with a 2xx status got onComplete exactly
\* once, as its last callback, with the concatenation of all its onChunk
\* texts; a call that did not finish with 2xx got no onComplete.
C7_CompleteOnceWithFullText ==
    \A c \in CallIds :
        LET log == calls[c].log
        IN  IF calls[c].status >= 200 /\ calls[c].status < 300
            THEN /\ CompleteIndexes(c) = {Len(log)}
                 /\ log[Len(log)].text = ChunkText(log)
            ELSE CompleteIndexes(c) = {}

\* C7 witness: a stream finished with status 200 after more than one delta
C7_Witness ==
    \E c \in CallIds :
        /\ calls[c].status = 200
        /\ Cardinality(ChunkIndexes(c)) >= 2
        /\ calls[c].log[Len(calls[c].log)].text = <<"a", "b">>

\* the text a response body carries: what one notification holding the
\* whole body decodes to
WholeBodyText(body) == AccumulateAll(<<>>, ChunkEvents(SplitLines(body, 0)))

Succeeded(c) == calls[c].status >= 200 /\ calls[c].status < 300

\* C18: the text of a finished stream (the onChunk deltas together, and the
\* onComplete text) is the text its response body carries, however the
\* transport cut the body into progress notifications.
C18_SplitIndependent ==
    \A c \in CallIds :
        Succeeded(c) =>
            /\ ChunkText(calls[c].log) = WholeBodyText(calls[c].body)
            /\ calls[c].log[Len(calls[c].log)].text = WholeBodyText(calls[c].body)

\* a `data: ` line whose payload is neither [DONE] nor JSON text
BadJsonLine(line) ==
    /\ line # <<>> /\ Head(line) = "P"
    /\ LET data == Trim(Tail(line))
       IN  /\ data # <<"D">>
           /\ ~(/\ Len(data) >= 2
                /\ data[1] = "{"
                /\ data[Len(data)] = "}"
                /\ \A i \in 2..(Len(data) - 1) : data[i] \in Letters)

HasBadLine(body) ==
    \E i \in 1..Len(SplitLines(body, 0)) : BadJsonLine(SplitLines(body, 0)[i].text)

ErrorIndexes(c) == {i \in 1..Len(calls[c].log) : calls[c].log[i].ev = "error"}

\* C19: a stream whose body has a `data: ` line of invalid JSON still
\* finishes without onError, and the delta of every well-formed line of the
\* body, before or after the bad line, was passed to onChunk, once each and
\* in body order.
C19_BadLineSkipped ==
    \A c \in CallIds :
        (Succeeded(c) /\ HasBadLine(calls[c].body)) =>
            /\ ErrorIndexes(c) = {}
            /\ SubSeq(calls[c].log, 2, Len(calls[c].log) - 1)
                   = ChunkEvents(SplitLines(calls[c].body, 0))

\* C20: a streamChat call that rejected (status not 2xx, or network error)
\* got onError exactly once and never onComplete.
C20_OnErrorOnce ==
    \A c \in CallIds :
        calls[c].phase = "rejected" =>
            (Cardinality(ErrorIndexes(c)) = 1 /\ CompleteIndexes(c) = {})

\* One client on which chat() and streamChat() run concurrently.  The
\* streams answer with an empty body: what a response contains plays no part
\* in what chat() does to a stream; the requests of chat() end with a
\* response, with an HTTP error or with a network error.
ClientTransports ==
    {t \in Transports : t.body = "content" \/ t.status = 500 \/ t.ev = "error"}

ClientNext ==
    \/ ChatCall
    \/ \E t \in ClientTransports : ChatAttempt(t)
    \/ ChatDelayElapsed
    \/ StreamChat(<<>>)
    \/ AbortStream
    \/ \E c \in CallIds, st \in Statuses : XhrLoad(c, st)
    \/ \E c \in CallIds : XhrError(c)
    \/ Resume

\* a step of chat(): the call, an attempt that settles (with success, with a
\* failure that is retried, or with the last failure), the end of a delay
ChatStep == chatVars' # chatVars

\* C24: no step of a chat() call, at any point of its retry loop and whether
\* it succeeds or fails, changes what isStreaming() returns, nor the
\* controller the client holds, nor any stream call (in flight or not).
C24_ChatLeavesStream ==
    [][ChatStep => /\ isStreaming' = isStreaming
                   /\ abortController' = abortController
                   /\ calls' = calls
                   /\ microtasks' = microtasks]_vars

\* C24 witness: while a stream is in flight and isStreaming() is true, a
\* chat() call has failed, was retried and then rejected after its last attempt
C24_Witness ==
    /\ isStreaming
    /\ \E c \in CallIds : InFlight(c) /\ abortController = c
    /\ chatResult.status = "rejected"
    /\ Len(outcomes) = MAX_RETRIES + 1

(***************************************************************************)
(*               LLMClient.testConnection and updateOptions                *)
(***************************************************************************)
DEFAULT_TIMEOUT == 30000    \* timeout the constructor applies
TEST_TIMEOUT    == 10000    \* timeout testConnection sets for its request

\* timeouts the application passes to updateOptions
TimeoutChoices == {5000, 60000}

\* the message testConnection reports for the error its request threw
TestMessage(err) ==
    IF err \in {"HTTP 401", "HTTP 403"} THEN "unauthorized"
    ELSE IF err = "HTTP 404" THEN "endpointNotFound"
    ELSE IF err = "Request timeout" THEN "timedOut"
    ELSE IF err = "Network error" THEN "networkError"
    ELSE "failed"

\* the assignment this.options.timeout = originalTimeout after the request
\* succeeded
RestoreOnSuccess(originalTimeout, current) == originalTimeout

\* RestoreOnFailure that leaves the timeout as it is
RestoreOnFailure_Missing(originalTimeout, current) == current

\* the assignment this.options.timeout = originalTimeout in the inner catch
RestoreOnFailure(originalTimeout, current) == originalTimeout

TestIds == 1..Len(tests)

\* testConnection() up to its await: the timeout is saved and replaced by
\* the test timeout, the test request is sent (history: `during` holds the
\* calls in flight at that moment, `updated` whether updateOptions was called
\* since)
TestConnection ==
    /\ Len(tests) < MaxTests
    /\ tests' = Append(tests,
                  [pc |-> "awaiting", before |-> timeout, originalTimeout |-> timeout,
                   after |-> 0, success |-> FALSE, message |-> "none",
                   during |-> {j \in TestIds : tests[j].pc = "awaiting"},
                   updated |-> FALSE])
    /\ timeout' = TEST_TIMEOUT
    /\ UNCHANGED notTestVars

\* the request of testConnection call i settles as transport t reports:
\* the timeout is restored on either path and the result is returned
TestSettle(i, t) ==
    /\ tests[i].pc = "awaiting"
    /\ LET ok == SendRequest(t) = "ok"
           restored == IF ok
                       THEN RestoreOnSuccess(tests[i].originalTimeout, timeout)
                       ELSE RestoreOnFailure(tests[i].originalTimeout, timeout)
       IN  /\ timeout' = restored
           /\ tests' = [tests EXCEPT
                  ![i].pc = "returned",
                  ![i].after = restored,
                  ![i].success = ok,
                  ![i].message = IF ok THEN "connected" ELSE TestMessage(SendRequest(t))]
    /\ UNCHANGED notTestVars

\* updateOptions({timeout: v})
UpdateOptions(v) ==
    /\ timeout' = v
    /\ tests' = IF tests = <<>> THEN tests
                ELSE [i \in TestIds |-> [tests[i] EXCEPT !.updated = TRUE]]
    /\ UNCHANGED notTestVars

TestInit ==
    /\ timeout = DEFAULT_TIMEOUT
    /\ tests = <<>>

TestNext ==
    \/ TestConnection
    \/ \E i \in TestIds, t \in Transports : TestSettle(i, t)
    \/ \E v \in TimeoutChoices : UpdateOptions(v)

\* C11: when a testConnection call has returned, with success or with
\* failure, the timeout it left configured is the timeout that was
\* configured when it was called (never the test timeout it used meanwhile,
\* unless that was the configured value).
C11_TimeoutRestored ==
    \A i \in TestIds :
        tests[i].pc = "returned" => tests[i].after = tests[i].before

\* C11 witness: a call made under a timeout other than the test timeout has
\* returned with a failure, and another has returned with success
C11_Witness ==
    /\ \E i \in TestIds :
          /\ tests[i].pc = "returned" /\ ~tests[i].success
          /\ tests[i].before # TEST_TIMEOUT /\ tests[i].after = tests[i].before
    /\ \E i \in TestIds : tests[i].pc = "returned" /\ tests[i].success

\* C22: when a testConnection call was made while an earlier one was in
\* flight, then once every call has returned (and updateOptions was not called
\* meanwhile) the timeout is the one configured before the earlier call.
C22_OverlapRestored ==
    \A i, j \in TestIds :
        ( /\ i \in tests[j].during
          /\ tests[i].during = {}
          /\ ~tests[i].updated
          /\ \A k \in TestIds : tests[k].pc = "returned" )
        => timeout = tests[i].before

(***************************************************************************)
(*          ConfigManager: the configuration kept in preferences           *)
(***************************************************************************)
\* A preference, and a field of the Partial<PluginConfig> passed to save(),
\* is a value or undefined: [def |-> FALSE] is undefined (v then only fixes
\* the type).  Temperatures are counted in tenths: 7 is 0.7 and 20 is 2.
Some(x) == [def |-> TRUE, v |-> x]

TemplateTypes == {"translation", "summary", "keyPoints", "qa"}

DEFAULT_TEMPLATES ==
    [translation |-> "default translation", summary |-> "default summary",
     keyPoints |-> "default keyPoints", qa |-> "default qa"]

\* JSON.stringify(templates): the text of a JSON object, written as the
\* opening brace followed by its members in property order.  The empty
\* sequence is the empty string.
StringifyTemplates(t) ==
    <<[k |-> "{", v |-> ""],
      [k |-> "translation", v |-> t.translation],
      [k |-> "summary", v |-> t.summary],
      [k |-> "keyPoints", v |-> t.keyPoints],
      [k |-> "qa", v |-> t.qa]>>

\* JSON.parse(text) throws unless text is the text of a JSON value
ParseThrows(text) == text[1].k \notin {"{", "["}

\* parsed[key] of the parsed text: the member's value, or the empty string
\* standing for undefined (both are falsy) when there is no such member
Member(text, key) ==
    IF text[1].k = "{" /\ \E i \in 2..Len(text) : text[i].k = key
    THEN text[CHOOSE i \in 2..Len(text) : text[i].k = key].v
    ELSE ""

\* getPref(key, defaultValue) with a string default: get(...) || defaultValue
GetPrefString(pref, defaultValue) ==
    IF pref.def /\ pref.v # "" THEN pref.v ELSE defaultValue

\* GetPrefNumber that takes `||` where the code takes `??`
GetPrefNumber_Falsy(pref, defaultValue) ==
    IF pref.def /\ pref.v # 0 THEN pref.v ELSE defaultValue

\* getPref(key, defaultValue) with a number default: get(...) ?? defaultValue
GetPrefNumber(pref, defaultValue) ==
    IF pref.def THEN pref.v ELSE defaultValue

\* getPref(key, defaultValue) with a boolean default: get(...) ?? defaultValue
GetPrefBoolean(pref, defaultValue) ==
    IF pref.def THEN pref.v ELSE defaultValue

\* loadTemplates(): the templates of the JSON text in the preference, a
\* missing or empty body replaced by its default; the defaults when the
\* preference is unset, empty or not JSON
loadTemplates(p) ==
    LET templatesJson == IF p.templates.def THEN p.templates.v ELSE <<>>
    IN  IF templatesJson # <<>> /\ ~ParseThrows(templatesJson)
        THEN [type \in TemplateTypes |->
                 IF Member(templatesJson, type) # ""
                 THEN Member(templatesJson, type)
                 ELSE DEFAULT_TEMPLATES[type]]
        ELSE DEFAULT_TEMPLATES

\* A PromptTemplate: its id, its content and its isDefault flag (name, type
\* and the time stamps play no part in the operations)
DefaultPrompt(id) == [id |-> id, content |-> "default", isDefault |-> TRUE]

DEFAULT_PROMPT_TEMPLATES ==
    <<DefaultPrompt("default-translation"), DefaultPrompt("default-summary"),
      DefaultPrompt("default-keypoints"), DefaultPrompt("default-qa")>>

\* JSON.stringify(templates) of a PromptTemplate[]: the text of a JSON
\* array, written as the opening bracket followed by its elements
StringifyPromptTemplates(list) ==
    <<[k |-> "[", v |-> ""]>> \o [i \in 1..Len(list) |-> [k |-> list[i].id, v |-> list[i]]]

\* the elements of the JSON array text
ParsedArray(text) ==
    IF Len(text) = 1 THEN <<>> ELSE [i \in 1..(Len(text) - 1) |-> text[i + 1].v]

\* loadPromptTemplates(): the array of the JSON text in the preference
\* `templates`; the defaults when the preference is unset, empty, not JSON
\* or not an array
loadPromptTemplates(p) ==
    LET templatesJson == IF p.templates.def THEN p.templates.v ELSE <<>>
    IN  IF templatesJson # <<>> /\ templatesJson[1].k = "["
        THEN ParsedArray(templatesJson)
        ELSE DEFAULT_PROMPT_TEMPLATES

\* the PluginConfig that load() builds from the preferences p
LoadedConfig(p) ==
    [isNull            |-> FALSE,
     apiKey            |-> GetPrefString(p.apiKey, ""),
     apiEndpoint       |-> GetPrefString(p.apiEndpoint, "https://api.openai.com/v1"),
     model             |-> GetPrefString(p.model, "gpt-3.5-turbo"),
     temperature       |-> GetPrefNumber(p.temperature, 7),
     defaultLanguage   |-> GetPrefString(p.defaultLanguage, "zh-CN"),
     enableTranslation |-> GetPrefBoolean(p.enableTranslation, TRUE),
     enableSummary     |-> GetPrefBoolean(p.enableSummary, TRUE),
     enableQA          |-> GetPrefBoolean(p.enableQA, TRUE),
     templates         |-> loadTemplates(p)]

\* this.config = null
NullConfig == [LoadedConfig([k \in {"apiKey", "apiEndpoint", "model", "defaultLanguage"} |-> [def |-> FALSE, v |-> ""]]
                              @@ [k \in {"temperature"} |-> [def |-> FALSE, v |-> 0]]
                              @@ [k \in {"enableTranslation", "enableSummary", "enableQA"} |-> [def |-> FALSE, v |-> FALSE]]
                              @@ [k \in {"templates"} |-> [def |-> FALSE, v |-> <<>>]])
                 EXCEPT !.isNull = TRUE]

\* no preference set
NoPrefs ==
    [apiKey |-> [def |-> FALSE, v |-> ""], apiEndpoint |-> [def |-> FALSE, v |-> ""],
     model |-> [def |-> FALSE, v |-> ""], temperature |-> [def |-> FALSE, v |-> 0],
     defaultLanguage |-> [def |-> FALSE, v |-> ""],
     enableTranslation |-> [def |-> FALSE, v |-> FALSE],
     enableSummary |-> [def |-> FALSE, v |-> FALSE],
     enableQA |-> [def |-> FALSE, v |-> FALSE],
     templates |-> [def |-> FALSE, v |-> <<>>]]

\* the Partial<PluginConfig> {} : every field undefined
NoInput == [NoPrefs EXCEPT !.templates = [def |-> FALSE, v |-> DEFAULT_TEMPLATES]]

\* new URL(url).protocol for the endpoint strings of the model, "throws"
\* where the URL parser rejects the string
UrlProtocol(url) ==
    CASE url = "https://api.example.com/v1" -> "https:"
      [] url = "http://localhost:8080"      -> "http:"
      [] url = "https://api.openai.com/v1"  -> "https:"
      [] url = "ftp://invalid"              -> "ftp:"
      [] OTHER                              -> "throws"

EndpointChoices ==
    {"https://api.example.com/v1", "http://localhost:8080", "ftp://invalid",
     "not-a-url", "http://", ""}

\* isValidUrl that accepts whatever the URL parser accepts
isValidUrl_AnyProtocol(url) == UrlProtocol(url) # "throws"

\* isValidUrl(url)
isValidUrl(url) == UrlProtocol(url) \in {"http:", "https:"}

\* clampTemperature without the upper limit
clampTemperature_NoUpper(temperature) == Max(0, temperature)

\* clampTemperature(temperature): Math.max(0, Math.min(2, temperature))
clampTemperature(temperature) == Max(0, Min(20, temperature))

CustomTemplates ==
    [translation |-> "custom translation", summary |-> "custom summary",
     keyPoints |-> "custom keyPoints", qa |-> "custom qa"]

\* a complete configuration as the settings dialog saves it
FullConfig(key, url, model, t, lang, flag, tpl) ==
    [apiKey |-> Some(key), apiEndpoint |-> Some(url), model |-> Some(model),
     temperature |-> Some(t), defaultLanguage |-> Some(lang),
     enableTranslation |-> Some(flag), enableSummary |-> Some(~flag),
     enableQA |-> Some(flag), templates |-> Some(tpl)]

\* the configurations passed to save(): one field alone, or all fields
SaveInputs ==
    {[NoInput EXCEPT !.apiKey = Some(x)] : x \in {"", "sk-key"}}
      \cup {[NoInput EXCEPT !.apiEndpoint = Some(x)] : x \in EndpointChoices}
      \cup {[NoInput EXCEPT !.model = Some(x)] : x \in {"", "gpt-4"}}
      \cup {[NoInput EXCEPT !.temperature = Some(x)] : x \in {-10, 0, 15, 50}}
      \cup {[NoInput EXCEPT !.defaultLanguage = Some(x)] : x \in {"", "en-US"}}
      \cup {[NoInput EXCEPT !.enableTranslation = Some(x)] : x \in BOOLEAN}
      \cup {[NoInput EXCEPT !.enableSummary = Some(FALSE)],
            [NoInput EXCEPT !.enableQA = Some(FALSE)]}
      \cup {[NoInput EXCEPT !.templates = Some(x)] :
                x \in {CustomTemplates, [CustomTemplates EXCEPT !.qa = ""]}}
      \cup {FullConfig("sk-key", "https://api.example.com/v1", "gpt-4", 15, "en-US", FALSE, CustomTemplates),
            FullConfig("", "http://localhost:8080", "gpt-4", 0, "en-US", TRUE,
                       [DEFAULT_TEMPLATES EXCEPT !.summary = "custom summary"]),
            FullConfig("sk-key", "https://api.example.com/v1", "gpt-4", 50, "en-US", FALSE, CustomTemplates),
            FullConfig("sk-key", "ftp://invalid", "gpt-4", 50, "en-US", FALSE, CustomTemplates),
            FullConfig("sk-key", "not-a-url", "gpt-4", 15, "en-US", FALSE, CustomTemplates),
            FullConfig("sk-key", "https://api.example.com/v1", "", 15, "", FALSE,
                       [CustomTemplates EXCEPT !.translation = ""])}

\* the config with which an operation works: load() runs first when
\* this.config is null
Ensured == IF config.isNull THEN LoadedConfig(prefs) ELSE config

\* config.promptTemplates with which an operation works that loads first
EnsuredPrompt == IF config.isNull THEN loadPromptTemplates(prefs) ELSE promptTemplates

\* cfgLast for an operation other than save
LastOp(op, type, saved, origin, repeat) ==
    [op |-> op, input |-> NoInput, rejected |-> FALSE, type |-> type,
     saved |-> saved, origin |-> origin, repeat |-> repeat]

\* the input of the save() that completed just before, if any
JustSaved == IF cfgLast.op = "save" /\ ~cfgLast.rejected THEN cfgLast.input ELSE NoInput

\* load()
Load ==
    /\ cfgOps < MaxCfgOps
    /\ cfgOps' = cfgOps + 1
    /\ config' = LoadedConfig(prefs)
    /\ promptTemplates' = loadPromptTemplates(prefs)
    /\ cfgLast' = LastOp("load", "", JustSaved, "", FALSE)
    /\ UNCHANGED <<prefs, notCfgVars>>

\* save(input): rejects before any write when the endpoint is given and is
\* not valid; clamps the temperature; merges the fields given into
\* this.config and writes each of them to its preference
Save(input) ==
    /\ cfgOps < MaxCfgOps
    /\ cfgOps' = cfgOps + 1
    /\ IF input.apiEndpoint.def /\ ~isValidUrl(input.apiEndpoint.v)
       THEN /\ config' = Ensured
            /\ UNCHANGED prefs
            /\ cfgLast' = [LastOp("save", "", NoInput, "", FALSE) EXCEPT
                              !.input = input, !.rejected = TRUE]
       ELSE LET given == IF input.temperature.def
                         THEN [input EXCEPT !.temperature.v = clampTemperature(@)]
                         ELSE input
            IN  /\ config' = [f \in DOMAIN Ensured |->
                                 IF f # "isNull" /\ given[f].def THEN given[f].v ELSE Ensured[f]]
                /\ prefs' = [f \in DOMAIN prefs |->
                                IF ~given[f].def THEN prefs[f]
                                ELSE IF f = "templates"
                                     THEN Some(StringifyTemplates(given[f].v))
                                     ELSE given[f]]
                /\ cfgLast' = [LastOp("save", "", NoInput, "", FALSE) EXCEPT !.input = input]
    /\ promptTemplates' = EnsuredPrompt
    /\ UNCHANGED notCfgVars

\* the template body resetTemplate(type) assigns, with the type ignored
ResetValue_Translation(type) == DEFAULT_TEMPLATES["translation"]

\* the template body resetTemplate(type) assigns
ResetValue(type) == DEFAULT_TEMPLATES[type]

\* updateTemplate(type, content)
UpdateTemplate(type, content) ==
    /\ cfgOps < MaxCfgOps
    /\ cfgOps' = cfgOps + 1
    /\ config' = [Ensured EXCEPT !.templates[type] = content]
    /\ prefs' = [prefs EXCEPT !.templates = Some(StringifyTemplates(config'.templates))]
    /\ cfgLast' = LastOp("updateTemplate", type, NoInput, "", FALSE)
    /\ promptTemplates' = EnsuredPrompt
    /\ UNCHANGED notCfgVars

\* resetTemplate(type)
ResetTemplate(type) ==
    /\ cfgOps < MaxCfgOps
    /\ cfgOps' = cfgOps + 1
    /\ config' = [Ensured EXCEPT !.templates[type] = ResetValue(type)]
    /\ prefs' = [prefs EXCEPT !.templates = Some(StringifyTemplates(config'.templates))]
    /\ LET again == cfgLast.op = "resetTemplate" /\ cfgLast.type = type
       IN  cfgLast' = LastOp("resetTemplate", type, NoInput,
                             IF again THEN cfgLast.origin ELSE Ensured.templates[type],
                             again)
    /\ promptTemplates' = EnsuredPrompt
    /\ UNCHANGED notCfgVars

\* savePromptTemplates(templates): written to the preference `templates`,
\* and to this.config when it is loaded
SavePromptTemplates(templates) ==
    /\ cfgOps < MaxCfgOps
    /\ cfgOps' = cfgOps + 1
    /\ prefs' = [prefs EXCEPT !.templates = Some(StringifyPromptTemplates(templates))]
    /\ promptTemplates' = IF config.isNull THEN promptTemplates ELSE templates
    /\ cfgLast' = LastOp("savePromptTemplates", "", NoInput, "", FALSE)
    /\ UNCHANGED <<config, notCfgVars>>

\* 'custom-' + Date.now(): the calls of the model are made at different times
CustomId(n) ==
    CASE n = 0 -> "custom-0" [] n = 1 -> "custom-1" [] n = 2 -> "custom-2"
      [] n = 3 -> "custom-3" [] OTHER -> "custom-4"

PromptIds ==
    {DEFAULT_PROMPT_TEMPLATES[i].id : i \in 1..Len(DEFAULT_PROMPT_TEMPLATES)}
      \cup {CustomId(n) : n \in 0..MaxCfgOps}

\* templates.findIndex(t => t.id === id): 0 stands for -1
FindIndex(list, id) ==
    IF \E i \in 1..Len(list) : list[i].id = id
    THEN CHOOSE i \in 1..Len(list) :
             list[i].id = id /\ \A j \in 1..(i - 1) : list[j].id # id
    ELSE 0

\* templates.filter(t => t.id !== id)
RECURSIVE FilterOut(_, _)
FilterOut(list, id) ==
    IF list = <<>> THEN <<>>
    ELSE IF Head(list).id # id
         THEN <<Head(list)>> \o FilterOut(Tail(list), id)
         ELSE FilterOut(Tail(list), id)

\* the write at the end of add-, update-, delete- and resetDefaultTemplate:
\* savePromptTemplates(templates) with this.config loaded
WritePromptTemplates(op, templates) ==
    /\ cfgOps' = cfgOps + 1
    /\ prefs' = [prefs EXCEPT !.templates = Some(StringifyPromptTemplates(templates))]
    /\ promptTemplates' = templates
    /\ cfgLast' = LastOp(op, "", NoInput, "", FALSE)
    /\ UNCHANGED <<config, notCfgVars>>

\* addPromptTemplate(template): getPromptTemplates() throws while the
\* configuration is not loaded; the template gets a new id and is appended
AddPromptTemplate(content, isDefault) ==
    /\ cfgOps < MaxCfgOps
    /\ ~config.isNull
    /\ WritePromptTemplates("addPromptTemplate",
           Append(promptTemplates,
                  [id |-> CustomId(cfgOps), content |-> content, isDefault |-> isDefault]))

\* { ...templates[index], ...updates }: the fields given replace the old ones
Updated(template, updates) ==
    [id        |-> template.id,
     content   |-> IF updates.content.def THEN updates.content.v ELSE template.content,
     isDefault |-> IF updates.isDefault.def THEN updates.isDefault.v ELSE template.isDefault]

\* the Partial<PromptTemplate> values passed to updatePromptTemplate
UpdateChoices ==
    {[content |-> Some("edited"), isDefault |-> [def |-> FALSE, v |-> FALSE]],
     [content |-> [def |-> FALSE, v |-> ""], isDefault |-> Some(FALSE)]}

\* updatePromptTemplate(id, updates): throws when no template has the id
UpdatePromptTemplate(id, updates) ==
    /\ cfgOps < MaxCfgOps
    /\ ~config.isNull
    /\ FindIndex(promptTemplates, id) # 0
    /\ WritePromptTemplates("updatePromptTemplate",
           [promptTemplates EXCEPT
               ![FindIndex(promptTemplates, id)] = Updated(@, updates)])

\* template?.isDefault of deletePromptTemplate: the call throws
DeleteRefused(list, id) ==
    FindIndex(list, id) # 0 /\ list[FindIndex(list, id)].isDefault

\* deletePromptTemplate(id)
DeletePromptTemplate(id) ==
    /\ cfgOps < MaxCfgOps
    /\ ~config.isNull
    /\ ~DeleteRefused(promptTemplates, id)
    /\ WritePromptTemplates("deletePromptTemplate", FilterOut(promptTemplates, id))

\* resetDefaultTemplate(id): throws when no template has the id; writes
\* only when the id is that of a built-in template
ResetDefaultTemplate(id) ==
    /\ cfgOps < MaxCfgOps
    /\ ~config.isNull
    /\ FindIndex(promptTemplates, id) # 0
    /\ FindIndex(DEFAULT_PROMPT_TEMPLATES, id) # 0
    /\ WritePromptTemplates("resetDefaultTemplate",
           [promptTemplates EXCEPT
               ![FindIndex(promptTemplates, id)] =
                   DEFAULT_PROMPT_TEMPLATES[FindIndex(DEFAULT_PROMPT_TEMPLATES, id)]])

\* the configurations with templates passed to save()
TemplateInputs == {input \in SaveInputs : input.templates.def /\ ~input.apiKey.def}

\* ConfigManager with both kinds of templates in use
TplNext ==
    \/ Load
    \/ \E input \in TemplateInputs : Save(input)
    \/ \E type \in {"qa"} : UpdateTemplate(type, "edited")
    \/ \E type \in {"qa"} : ResetTemplate(type)
    \/ \E list \in {DEFAULT_PROMPT_TEMPLATES, <<>>} : SavePromptTemplates(list)
    \/ AddPromptTemplate("new", FALSE)
    \/ \E id \in PromptIds, updates \in UpdateChoices : UpdatePromptTemplate(id, updates)
    \/ \E id \in PromptIds : DeletePromptTemplate(id)
    \/ \E id \in PromptIds : ResetDefaultTemplate(id)

\* the prompt templates edited after the configuration was loaded
PromptNext ==
    \/ \E content \in {"new"}, isDefault \in BOOLEAN : AddPromptTemplate(content, isDefault)
    \/ \E id \in PromptIds, updates \in UpdateChoices : UpdatePromptTemplate(id, updates)
    \/ \E id \in PromptIds : DeletePromptTemplate(id)

CfgInit ==
    /\ prefs = NoPrefs
    /\ config = NullConfig
    /\ promptTemplates = <<>>
    /\ cfgLast = LastOp("none", "", NoInput, "", FALSE)
    /\ cfgOps = 0

CfgNext ==
    \/ Load
    \/ \E input \in SaveInputs : Save(input)
    \/ \E type \in TemplateTypes, content \in {"", "edited"} : UpdateTemplate(type, content)
    \/ \E type \in TemplateTypes : ResetTemplate(type)

(***************************************************************************)
(*                      properties of ConfigManager                        *)
(***************************************************************************)
\* C12: after a save() that passed a temperature t, the stored and the
\* in-memory temperature are min(2, max(0, t)); the stored temperature
\* always lies in [0, 2].
C12_TemperatureClamped ==
    /\ prefs.temperature.def => (0 <= prefs.temperature.v /\ prefs.temperature.v <= 20)
    /\ (cfgLast.op = "save" /\ ~cfgLast.rejected /\ cfgLast.input.temperature.def) =>
           LET t == cfgLast.input.temperature.v
           IN  /\ prefs.temperature = Some(Min(20, Max(0, t)))
               /\ config.temperature = Min(20, Max(0, t))

\* C12 witness: temperature 5 was saved and 2 is stored
C12_Witness ==
    /\ cfgLast.op = "save" /\ ~cfgLast.rejected
    /\ cfgLast.input.temperature = Some(50)
    /\ prefs.temperature = Some(20)

\* C13: save() rejects exactly when an apiEndpoint is passed that is not a
\* well-formed http or https URL, and a rejected save() leaves every
\* preference as it was, whatever other fields were passed with it.
C13_InvalidUrlRejected ==
    [][ (cfgOps' # cfgOps /\ cfgLast'.op = "save") =>
            LET url == cfgLast'.input.apiEndpoint
            IN  /\ cfgLast'.rejected <=>
                       (url.def /\ UrlProtocol(url.v) \notin {"http:", "https:"})
                /\ cfgLast'.rejected => prefs' = prefs
      ]_vars

\* C13 witness: a save() that passed a bad endpoint together with other
\* fields was rejected, and the preferences written before are still there
C13_Witness ==
    /\ cfgLast.op = "save" /\ cfgLast.rejected
    /\ cfgLast.input.temperature.def /\ cfgLast.input.templates.def
    /\ prefs.model = Some("gpt-4")
    /\ ~prefs.temperature.def

\* the configurations of the round-trip property: a web URL as endpoint, a
\* model name and template bodies of at least one character, a temperature
\* in [0, 2], a language out of a list of language tags
ValidConfig(input) ==
    /\ input.apiEndpoint.def => UrlProtocol(input.apiEndpoint.v) \in {"http:", "https:"}
    /\ input.model.def => input.model.v # ""
    /\ input.temperature.def => (0 <= input.temperature.v /\ input.temperature.v <= 20)
    /\ input.defaultLanguage.def => input.defaultLanguage.v \in {"zh-CN", "en-US", "ja-JP", "fr-FR"}
    /\ input.templates.def => \A type \in TemplateTypes : input.templates.v[type] # ""

\* C14: a load() that follows the save() of a valid configuration returns
\* the saved value in every field that was saved: apiKey, apiEndpoint, model,
\* temperature, defaultLanguage, the enable flags, and each template body.
C14_RoundTrip ==
    (cfgLast.op = "load" /\ ValidConfig(cfgLast.saved)) =>
        \A f \in DOMAIN cfgLast.saved :
            cfgLast.saved[f].def => config[f] = cfgLast.saved[f].v

\* C14 witness: a complete valid configuration with an empty apiKey and
\* temperature 0 was saved and then loaded
C14_Witness ==
    /\ cfgLast.op = "load"
    /\ ValidConfig(cfgLast.saved)
    /\ \A f \in DOMAIN cfgLast.saved : cfgLast.saved[f].def
    /\ cfgLast.saved.temperature.v = 0 /\ cfgLast.saved.apiKey.v = ""
    /\ config.temperature = 0

\* C15: resetTemplate(type) leaves the template at its default, in memory
\* and in the preferences, whatever it was before; a second resetTemplate(type)
\* right after changes neither the configuration nor the preferences.
C15_ResetTemplate ==
    [][ (cfgOps' # cfgOps /\ cfgLast'.op = "resetTemplate") =>
            /\ config'.templates[cfgLast'.type] = DEFAULT_TEMPLATES[cfgLast'.type]
            /\ loadTemplates(prefs')[cfgLast'.type] = DEFAULT_TEMPLATES[cfgLast'.type]
            /\ \A type \in TemplateTypes \ {cfgLast'.type} :
                   config'.templates[type] = Ensured.templates[type]
            /\ cfgLast'.repeat => (config' = config /\ prefs' = prefs)
      ]_vars

\* C15 witness: a template that had been edited was reset twice in a row
C15_Witness ==
    /\ cfgLast.op = "resetTemplate" /\ cfgLast.repeat
    /\ cfgLast.origin = "edited"
    /\ config.templates[cfgLast.type] = DEFAULT_TEMPLATES[cfgLast.type]

\* the operations that save prompt templates, and those that save legacy
\* templates
PromptSaves ==
    {"savePromptTemplates", "addPromptTemplate", "updatePromptTemplate",
     "deletePromptTemplate"}
LegacySaves == {"updateTemplate", "resetTemplate"}

\* C25: saving prompt templates does not change the legacy templates that a
\* load() would return, and saving legacy templates (save with templates,
\* updateTemplate, resetTemplate) does not change the prompt templates that
\* a load() would return.
C25_TemplatesIndependent ==
    [][ /\ (cfgOps' # cfgOps /\ cfgLast'.op \in PromptSaves) =>
               loadTemplates(prefs') = loadTemplates(prefs)
        /\ (cfgOps' # cfgOps /\ (cfgLast'.op \in LegacySaves
                                   \/ (cfgLast'.op = "save" /\ ~cfgLast'.rejected
                                         /\ cfgLast'.input.templates.def))) =>
               loadPromptTemplates(prefs') = loadPromptTemplates(prefs)
      ]_vars

\* C26: once the configuration is loaded, every built-in default prompt
\* template is in the template list, whatever addPromptTemplate,
\* updatePromptTemplate and deletePromptTemplate calls were made.
C26_DefaultsKept ==
    \A i \in 1..Len(DEFAULT_PROMPT_TEMPLATES) :
        FindIndex(promptTemplates, DEFAULT_PROMPT_TEMPLATES[i].id) # 0

(***************************************************************************)
(*                 MarkdownRenderer: Markdown text to HTML                 *)
(***************************************************************************)
\* A text is a sequence of characters.  A string of several characters in
\* it is a piece of literal text that the renderer emitted (a tag, an
\* entity) or the scheme `http://` of a URL: it counts as one character that
\* is neither white space nor a word character, and no pattern of the
\* renderer matches inside it.  The indentation of the lines of the code
\* block template is written as one blank.
IsSpace(c) == c \in {" ", "\n"}
IsWord(c)  == c \in {"a", "b", "1", "2", "_"}
IsDigit(c) == c \in {"1", "2"}

\* text.startsWith(pat, p - 1)
StartsWithAt(text, p, pat) ==
    /\ p >= 1
    /\ p + Len(pat) - 1 <= Len(text)
    /\ SubSeq(text, p, p + Len(pat) - 1) = pat

\* the least of the indexes found in text, or Len(text) + 1 when there is none
First(found, text) ==
    IF found = {} THEN Len(text) + 1
    ELSE CHOOSE i \in found : \A j \in found : i <= j

\* text.split('\n')
RECURSIVE Split(_)
Split(text) ==
    LET k == First({i \in 1..Len(text) : text[i] = "\n"}, text)
    IN  IF k > Len(text) THEN <<text>>
        ELSE <<SubSeq(text, 1, k - 1)>> \o Split(SubSeq(text, k + 1, Len(text)))

\* parts.join(sep)
RECURSIVE Join(_, _)
Join(parts, sep) ==
    IF parts = <<>> THEN <<>>
    ELSE IF Len(parts) = 1 THEN parts[1]
    ELSE parts[1] \o sep \o Join(Tail(parts), sep)

\* String.prototype.trim
RECURSIVE TrimStart(_)
TrimStart(text) ==
    IF text # <<>> /\ IsSpace(Head(text)) THEN TrimStart(Tail(text)) ELSE text
RECURSIVE TrimEnd(_)
TrimEnd(text) ==
    IF text # <<>> /\ IsSpace(text[Len(text)])
    THEN TrimEnd(SubSeq(text, 1, Len(text) - 1)) ELSE text
TrimText(text) == TrimEnd(TrimStart(text))

\* escapeHtml(text): the five characters replaced by their entities when
\* sanitize is set
EscapeChar(c) ==
    CASE c = "&"  -> "&amp;"
      [] c = "<"  -> "&lt;"
      [] c = ">"  -> "&gt;"
      [] c = "\"" -> "&quot;"
      [] c = "'"  -> "&#039;"
      [] OTHER    -> c

escapeHtml(text, sanitize) ==
    IF ~sanitize THEN text ELSE [i \in 1..Len(text) |-> EscapeChar(text[i])]

\* ---- processCodeBlocks: /```(\w*)\n([\s\S]*?)```/g ----
\* the backtick is written "^"
BT == "^"

FenceAt(text, p) == StartsWithAt(text, p, <<BT, BT, BT>>)

\* index of the character that ends the language tag of a fence opened at p
LangEnd(text, p) ==
    First({i \in (p + 3)..Len(text) : ~IsWord(text[i])}, text)

\* index of the closing fence of a code block opened at p
CloseFence(text, p) ==
    First({i \in (LangEnd(text, p) + 1)..Len(text) : FenceAt(text, i)}, text)

\* the pattern matches at p
CodeBlockAt(text, p) ==
    /\ FenceAt(text, p)
    /\ LangEnd(text, p) <= Len(text)
    /\ text[LangEnd(text, p)] = "\n"
    /\ CloseFence(text, p) <= Len(text)

CodeOpen == "<pre><code class=\"language-"

\* the replacement of one code block
CodeBlockHtml(language, code) ==
    LET lang == IF language = <<>> THEN <<"text">> ELSE language
    IN  <<"<div class=\"ai-code-block\" data-language=\"">> \o lang \o <<"\">", "\n", " ",
          "<div class=\"ai-code-header\">", "\n", " ",
          "<span class=\"ai-code-language\">">> \o lang \o <<"</span>", "\n", " ",
          "<button class=\"ai-code-copy\">", "</button>", "\n", " ",
          "</div>", "\n", " ",
          CodeOpen>> \o lang \o <<"\">">> \o TrimText(code) \o <<"</code></pre>", "\n", " ",
          "</div>">>

RECURSIVE CodeBlocksFrom(_, _)
CodeBlocksFrom(text, p) ==
    IF p > Len(text) THEN <<>>
    ELSE IF CodeBlockAt(text, p)
         THEN CodeBlockHtml(SubSeq(text, p + 3, LangEnd(text, p) - 1),
                            SubSeq(text, LangEnd(text, p) + 1, CloseFence(text, p) - 1))
                  \o CodeBlocksFrom(text, CloseFence(text, p) + 3)
         ELSE <<text[p]>> \o CodeBlocksFrom(text, p + 1)

processCodeBlocks(text) == CodeBlocksFrom(text, 1)

\* ---- processInlineCode: /`([^`\n]+)`/g ----
InlineCodeEnd(text, p) ==
    First({i \in (p + 1)..Len(text) : text[i] \in {BT, "\n"}}, text)

InlineCodeAt(text, p) ==
    /\ text[p] = BT
    /\ InlineCodeEnd(text, p) <= Len(text)
    /\ text[InlineCodeEnd(text, p)] = BT
    /\ InlineCodeEnd(text, p) >= p + 2

RECURSIVE InlineCodeFrom(_, _)
InlineCodeFrom(text, p) ==
    IF p > Len(text) THEN <<>>
    ELSE IF InlineCodeAt(text, p)
         THEN <<"<code class=\"ai-inline-code\">">>
                  \o SubSeq(text, p + 1, InlineCodeEnd(text, p) - 1) \o <<"</code>">>
                  \o InlineCodeFrom(text, InlineCodeEnd(text, p) + 1)
         ELSE <<text[p]>> \o InlineCodeFrom(text, p + 1)

processInlineCode(text) == InlineCodeFrom(text, 1)

\* ---- processTables ----
\* No character of the texts of the model is '|': no line is a table row,
\* and the split into lines followed by the join gives the text back.
processTables(text) == Join(Split(text), <<"\n">>)

\* ---- processLists ----
\* number of white-space characters of line from index p on
RECURSIVE SpaceRun(_, _)
SpaceRun(line, p) ==
    IF p <= Len(line) /\ IsSpace(line[p]) THEN 1 + SpaceRun(line, p + 1) ELSE 0

RECURSIVE DigitRun(_, _)
DigitRun(line, p) ==
    IF p <= Len(line) /\ IsDigit(line[p]) THEN 1 + DigitRun(line, p + 1) ELSE 0

\* \s+(.+)$ from index p of line: white space, then at least one character up
\* to the end of the line.  When the white space runs to the end of the line
\* its last character is the item.
RestMatches(line, p) ==
    SpaceRun(line, p) >= 1 /\ (p + SpaceRun(line, p) <= Len(line) \/ SpaceRun(line, p) >= 2)

Rest(line, p) ==
    IF p + SpaceRun(line, p) <= Len(line)
    THEN SubSeq(line, p + SpaceRun(line, p), Len(line))
    ELSE <<line[Len(line)]>>

\* line.match(/^(\s*)[-*+]\s+(.+)$/)
UlMatch(line) ==
    LET m == SpaceRun(line, 1) + 1
    IN  m <= Len(line) /\ line[m] \in {"-", "*", "+"} /\ RestMatches(line, m + 1)

UlItem(line) == Rest(line, SpaceRun(line, 1) + 2)

\* line.match(/^(\s*)\d+\.\s+(.+)$/)
OlMatch(line) ==
    LET m == SpaceRun(line, 1) + 1
        d == DigitRun(line, m)
    IN  d >= 1 /\ m + d <= Len(line) /\ line[m + d] = "." /\ RestMatches(line, m + d + 1)

OlItem(line) ==
    LET m == SpaceRun(line, 1) + 1 IN Rest(line, m + DigitRun(line, m) + 1)

RECURSIVE ListItems(_)
ListItems(items) ==
    IF items = <<>> THEN <<>>
    ELSE <<"<li>">> \o Head(items) \o <<"</li>">> \o ListItems(Tail(items))

\* renderList that takes every list for an unordered one
renderList_Unordered(items, type) ==
    <<"<ul class=\"ai-unordered-list\">">> \o ListItems(items) \o <<"</ul>">>

\* renderList(items, type)
renderList(items, type) ==
    IF type = "ol"
    THEN <<"<ol class=\"ai-ordered-list\">">> \o ListItems(items) \o <<"</ol>">>
    ELSE <<"<ul class=\"ai-unordered-list\">">> \o ListItems(items) \o <<"</ul>">>

\* the loop of processLists over lines, with its locals
RECURSIVE ListsFrom(_, _, _, _)
ListsFrom(lines, inList, listType, listItems) ==
    IF lines = <<>>
    THEN IF inList THEN <<renderList(listItems, listType)>> ELSE <<>>
    ELSE LET line == Head(lines)
             kind == IF UlMatch(line) THEN "ul" ELSE IF OlMatch(line) THEN "ol" ELSE "none"
             item == IF kind = "ul" THEN UlItem(line) ELSE OlItem(line)
         IN  IF kind # "none"
             THEN IF ~inList \/ listType # kind
                  THEN (IF inList THEN <<renderList(listItems, listType)>> ELSE <<>>)
                           \o ListsFrom(Tail(lines), TRUE, kind, <<item>>)
                  ELSE ListsFrom(Tail(lines), TRUE, kind, Append(listItems, item))
             ELSE (IF inList THEN <<renderList(listItems, listType)>> ELSE <<>>)
                      \o <<line>> \o ListsFrom(Tail(lines), FALSE, listType, <<>>)

processLists(text) == Join(ListsFrom(Split(text), FALSE, "", <<>>), <<"\n">>)

\* ---- processBlockquotes ----
\* line.match(/^>\s*(.*)$/)
QuoteMatch(line) == line # <<>> /\ line[1] = ">"

QuoteText(line) == SubSeq(line, 2 + SpaceRun(line, 2), Len(line))

QuoteHtml(quoteLines) ==
    <<"<blockquote class=\"ai-blockquote\">">> \o Join(quoteLines, <<"<br>">>)
        \o <<"</blockquote>">>

RECURSIVE QuotesFrom(_, _, _)
QuotesFrom(lines, inQuote, quoteLines) ==
    IF lines = <<>>
    THEN IF inQuote THEN <<QuoteHtml(quoteLines)>> ELSE <<>>
    ELSE IF QuoteMatch(Head(lines))
         THEN QuotesFrom(Tail(lines), TRUE,
                         IF inQuote THEN Append(quoteLines, QuoteText(Head(lines)))
                                    ELSE <<QuoteText(Head(lines))>>)
         ELSE (IF inQuote THEN <<QuoteHtml(quoteLines)>> ELSE <<>>)
                  \o <<Head(lines)>> \o QuotesFrom(Tail(lines), FALSE, <<>>)

processBlockquotes(text) == Join(QuotesFrom(Split(text), FALSE, <<>>), <<"\n">>)

\* ---- processHeadings: /^(#{1,6})\s+(.+)$/gm ----
RECURSIVE HashRun(_, _)
HashRun(text, p) ==
    IF p <= Len(text) /\ text[p] = "#" THEN 1 + HashRun(text, p + 1) ELSE 0

AtLineStart(text, p) == p = 1 \/ text[p - 1] = "\n"

\* the white space after the hashes may hold newlines; the content starts
\* at the last place of it, or right after it, where a character other than
\* a newline stands
HeadingContentStart(text, p) ==
    LET h == HashRun(text, p)
        w == SpaceRun(text, p + h)
        ok == {k \in 1..w : p + h + k <= Len(text) /\ text[p + h + k] # "\n"}
    IN  IF ok = {} THEN 0 ELSE p + h + (CHOOSE k \in ok : \A j \in ok : j <= k)

HeadingAt(text, p) ==
    /\ AtLineStart(text, p)
    /\ HashRun(text, p) \in 1..6
    /\ HeadingContentStart(text, p) # 0

LineEnd(text, p) ==
    First({i \in p..Len(text) : text[i] = "\n"}, text) - 1

HeadingOpen ==
    <<"<h1 class=\"ai-heading ai-heading-1\">", "<h2 class=\"ai-heading ai-heading-2\">",
      "<h3 class=\"ai-heading ai-heading-3\">", "<h4 class=\"ai-heading ai-heading-4\">",
      "<h5 class=\"ai-heading ai-heading-5\">", "<h6 class=\"ai-heading ai-heading-6\">">>
HeadingClose == <<"</h1>", "</h2>", "</h3>", "</h4>", "</h5>", "</h6>">>

RECURSIVE HeadingsFrom(_, _)
HeadingsFrom(text, p) ==
    IF p > Len(text) THEN <<>>
    ELSE IF HeadingAt(text, p)
         THEN LET from == HeadingContentStart(text, p)
                  to   == LineEnd(text, from)
                  level == HashRun(text, p)
              IN  <<HeadingOpen[level]>> \o SubSeq(text, from, to) \o <<HeadingClose[level]>>
                      \o HeadingsFrom(text, to + 1)
         ELSE <<text[p]>> \o HeadingsFrom(text, p + 1)

processHeadings(text) == HeadingsFrom(text, 1)

\* ---- processHorizontalRules: /^([-*_]){3,}$/gm ----
RuleLine(line) ==
    Len(line) >= 3 /\ \A i \in 1..Len(line) : line[i] \in {"-", "*", "_"}

processHorizontalRules(text) ==
    LET lines == Split(text)
    IN  Join([i \in 1..Len(lines) |->
                 IF RuleLine(lines[i]) THEN <<"<hr class=\"ai-hr\">">> ELSE lines[i]],
             <<"\n">>)

\* ---- processInlineFormatting ----
\* index of the closing delimiter d of /d(.+?)d/ opened at p, or 0
DelimClose(text, p, d) ==
    LET ends == {e \in (p + Len(d) + 1)..Len(text) :
                    /\ StartsWithAt(text, e, d)
                    /\ \A i \in (p + Len(d))..(e - 1) : text[i] # "\n"}
    IN  IF StartsWithAt(text, p, d) /\ ends # {}
        THEN CHOOSE e \in ends : \A j \in ends : e <= j
        ELSE 0

\* text.replace(/d(.+?)d/g, open $1 close)
RECURSIVE Delimited(_, _, _, _, _)
Delimited(text, p, d, open, close) ==
    IF p > Len(text) THEN <<>>
    ELSE IF DelimClose(text, p, d) # 0
         THEN <<open>> \o SubSeq(text, p + Len(d), DelimClose(text, p, d) - 1) \o <<close>>
                  \o Delimited(text, DelimClose(text, p, d) + Len(d), d, open, close)
         ELSE <<text[p]>> \o Delimited(text, p + 1, d, open, close)

processInlineFormatting(text) ==
    LET bold1 == Delimited(text, 1, <<"*", "*">>, "<strong>", "</strong>")
        bold2 == Delimited(bold1, 1, <<"_", "_">>, "<strong>", "</strong>")
        em1   == Delimited(bold2, 1, <<"*">>, "<em>", "</em>")
        em2   == Delimited(em1, 1, <<"_">>, "<em>", "</em>")
    IN  Delimited(em2, 1, <<"~", "~">>, "<del>", "</del>")

\* ---- processLinks ----
LinkAttributes == "class=\"ai-link\" target=\"_blank\" rel=\"noopener noreferrer\">"

Anchor(url, label) ==
    <<"<a href=\"">> \o url \o <<"\"", " ", LinkAttributes>> \o label \o <<"</a>">>

\* /\[([^\]]+)\]\(([^)]+)\)/ at p: the indexes of "]" and of ")"
LabelEnd(text, p) ==
    First({i \in (p + 1)..Len(text) : text[i] = "]"}, text)
UrlEnd(text, p) ==
    First({i \in (LabelEnd(text, p) + 2)..Len(text) : text[i] = ")"}, text)

ExplicitLinkAt(text, p) ==
    /\ text[p] = "["
    /\ LabelEnd(text, p) >= p + 2
    /\ LabelEnd(text, p) + 1 <= Len(text)
    /\ text[LabelEnd(text, p) + 1] = "("
    /\ UrlEnd(text, p) <= Len(text)
    /\ UrlEnd(text, p) >= LabelEnd(text, p) + 3

RECURSIVE ExplicitLinksFrom(_, _)
ExplicitLinksFrom(text, p) ==
    IF p > Len(text) THEN <<>>
    ELSE IF ExplicitLinkAt(text, p)
         THEN Anchor(SubSeq(text, LabelEnd(text, p) + 2, UrlEnd(text, p) - 1),
                     SubSeq(text, p + 1, LabelEnd(text, p) - 1))
                  \o ExplicitLinksFrom(text, UrlEnd(text, p) + 1)
         ELSE <<text[p]>> \o ExplicitLinksFrom(text, p + 1)

\* the first character of c is '<'
StartsWithLt(c) ==
    c \in {"<", "<br>", "<li>", "</li>", "</ul>", "</ol>", "</blockquote>", "</code>",
           "</code></pre>", "</span>", "</button>", "</div>", "</a>", "<strong>",
           "</strong>", "<em>", "</em>", "<del>", "</del>", "<hr class=\"ai-hr\">",
           "<a href=\"", CodeOpen, "<code class=\"ai-inline-code\">",
           "<blockquote class=\"ai-blockquote\">", "<ul class=\"ai-unordered-list\">",
           "<ol class=\"ai-ordered-list\">", "<div class=\"ai-code-block\" data-language=\"",
           "<div class=\"ai-code-header\">", "<span class=\"ai-code-language\">",
           "<button class=\"ai-code-copy\">", "<p class=\"ai-paragraph\">", "</p>"}
      \/ \E l \in 1..6 : c \in {HeadingOpen[l], HeadingClose[l]}

\* /(https?:\/\/[^\s<]+)/ at p: the index of the last character of the URL
AutoLinkEnd(text, p) ==
    First({i \in (p + 1)..Len(text) : IsSpace(text[i]) \/ StartsWithLt(text[i])}, text) - 1

AutoLinkAt(text, p) ==
    text[p] \in {"http://", "https://"} /\ AutoLinkEnd(text, p) >= p + 1

RECURSIVE AutoLinksFrom(_, _)
AutoLinksFrom(text, p) ==
    IF p > Len(text) THEN <<>>
    ELSE IF AutoLinkAt(text, p)
         THEN Anchor(SubSeq(text, p, AutoLinkEnd(text, p)), SubSeq(text, p, AutoLinkEnd(text, p)))
                  \o AutoLinksFrom(text, AutoLinkEnd(text, p) + 1)
         ELSE <<text[p]>> \o AutoLinksFrom(text, p + 1)

processLinks(text) == AutoLinksFrom(ExplicitLinksFrom(text, 1), 1)

\* ---- processParagraphs ----
RECURSIVE NlRun(_, _)
NlRun(text, p) ==
    IF p <= Len(text) /\ text[p] = "\n" THEN 1 + NlRun(text, p + 1) ELSE 0

\* text.split(/\n\n+/)
RECURSIVE SplitBlocks(_)
SplitBlocks(text) ==
    LET k == First({i \in 1..Len(text) : text[i] = "\n" /\ NlRun(text, i) >= 2}, text)
    IN  IF k > Len(text) THEN <<text>>
        ELSE <<SubSeq(text, 1, k - 1)>>
                 \o SplitBlocks(SubSeq(text, k + NlRun(text, k), Len(text)))

\* /<(h[1-6]|ul|ol|table|blockquote|div|pre|hr)/i matches at c
BlockTag(c) ==
    \/ \E l \in 1..6 : c = HeadingOpen[l]
    \/ c \in {"<ul class=\"ai-unordered-list\">", "<ol class=\"ai-ordered-list\">",
              "<blockquote class=\"ai-blockquote\">",
              "<div class=\"ai-code-block\" data-language=\"", "<div class=\"ai-code-header\">",
              CodeOpen, "<hr class=\"ai-hr\">"}

Paragraph(block) ==
    LET trimmed == TrimText(block)
    IN  IF trimmed = <<>> THEN <<>>
        ELSE IF /\ StartsWithLt(trimmed[1])
                /\ trimmed[1] \notin {"<code class=\"ai-inline-code\">", "<a href=\""}
             THEN trimmed
        ELSE IF \E i \in 1..Len(trimmed) : BlockTag(trimmed[i])
             THEN trimmed
        ELSE <<"<p class=\"ai-paragraph\">">>
                 \o [i \in 1..Len(trimmed) |-> IF trimmed[i] = "\n" THEN "<br>" ELSE trimmed[i]]
                 \o <<"</p>">>

processParagraphs(text) ==
    LET blocks == SplitBlocks(text)
    IN  Join([i \in 1..Len(blocks) |-> Paragraph(blocks[i])], <<"\n">>)

\* ---- render(markdown) ----
\* the options of the renderer: the defaults, sanitize off, tables and
\* links off
OptionChoices ==
    {[sanitize |-> TRUE,  enableTables |-> TRUE,  enableLinks |-> TRUE],
     [sanitize |-> FALSE, enableTables |-> TRUE,  enableLinks |-> TRUE],
     [sanitize |-> TRUE,  enableTables |-> FALSE, enableLinks |-> FALSE]}

\* the lines of which the Markdown texts of the model are made
LineChoices ==
    {<<>>, <<"a">>, <<">", " ", "a">>, <<">", "b">>, <<BT, BT, BT>>, <<BT, BT, BT, "a">>,
     <<"a", "*", "b", "*">>, <<"*", " ", "a">>, <<BT, "b", BT>>, <<"#", " ", "a">>,
     <<"-", "-", "-">>}

RECURSIVE TextsOf(_)
TextsOf(n) ==
    IF n = 1 THEN LineChoices
    ELSE {t \o <<"\n">> \o l : t \in TextsOf(n - 1), l \in LineChoices}

MdInputs == UNION {TextsOf(n) : n \in 1..MaxLines}

\* the texts of up to n lines taken from choices
RECURSIVE TextsFrom(_, _)
TextsFrom(choices, n) ==
    IF n = 1 THEN choices
    ELSE TextsFrom(choices, n - 1)
           \cup {t \o <<"\n">> \o l : t \in TextsFrom(choices, n - 1), l \in choices}

\* lines of lists: unordered items with two markers, ordered items, a line
\* of text and a blank line
ListLines ==
    {<<"*", " ", "a">>, <<"-", " ", "b">>, <<"1", ".", " ", "a">>, <<"2", ".", " ", "b">>,
     <<"a">>, <<>>}

\* render() is called: `if (!markdown) return ''`, else escapeHtml
MdEscapeHtml ==
    /\ mdStage = 0
    /\ IF mdInput = <<>>
       THEN mdStage' = 11 /\ mdHtml' = <<>>
       ELSE mdStage' = 1 /\ mdHtml' = escapeHtml(mdInput, mdOptions.sanitize)
    /\ UNCHANGED <<mdInput, mdOptions, notMdVars>>

\* the stage of render() that follows stage n applies f to html
MdStage(n, html) ==
    /\ mdStage = n
    /\ mdStage' = n + 1
    /\ mdHtml' = html
    /\ UNCHANGED <<mdInput, mdOptions, notMdVars>>

MdCodeBlocks       == MdStage(1, processCodeBlocks(mdHtml))
MdInlineCode       == MdStage(2, processInlineCode(mdHtml))
MdTables           == MdStage(3, IF mdOptions.enableTables THEN processTables(mdHtml) ELSE mdHtml)
MdLists            == MdStage(4, processLists(mdHtml))
MdBlockquotes      == MdStage(5, processBlockquotes(mdHtml))
MdHeadings         == MdStage(6, processHeadings(mdHtml))
MdHorizontalRules  == MdStage(7, processHorizontalRules(mdHtml))
MdInlineFormatting == MdStage(8, processInlineFormatting(mdHtml))
MdLinks            == MdStage(9, IF mdOptions.enableLinks THEN processLinks(mdHtml) ELSE mdHtml)
MdParagraphs       == MdStage(10, processParagraphs(mdHtml))

\* no render() call is under way
MdIdle ==
    /\ mdOptions = [sanitize |-> TRUE, enableTables |-> TRUE, enableLinks |-> TRUE]
    /\ mdInput = <<>>
    /\ mdHtml = <<>>
    /\ mdStage = 11

\* render(markdown) was called on a renderer constructed with some options
MdInit ==
    /\ mdOptions \in OptionChoices
    /\ mdInput \in MdInputs
    /\ mdHtml = <<>>
    /\ mdStage = 0

\* lines of one repeated rule character, of mixed rule characters, too short
\* a line, and a line of text
RuleLines ==
    {<<"-", "-", "-">>, <<"*", "*", "*">>, <<"_", "_", "_", "_">>, <<"-", "*", "-">>,
     <<"*", "_", "_">>, <<"-", "-">>, <<"a">>}

\* lines with explicit links to http, https and relative URLs, a bare URL,
\* and a line of text
LinkLines ==
    {<<"[", "a", "]", "(", "http://", "b", ")">>,
     <<"[", "a", " ", "b", "]", "(", "https://", "a", ")">>,
     <<"[", "a", "]", "(", "b", ")">>,
     <<"http://", "a">>,
     <<"a">>}

\* render(markdown) was called with a text of rule lines
MdInitRules ==
    /\ mdOptions \in OptionChoices
    /\ mdInput \in TextsFrom(RuleLines, MaxLines)
    /\ mdHtml = <<>>
    /\ mdStage = 0

\* render(markdown) was called with a text of link lines
MdInitLinks ==
    /\ mdOptions \in OptionChoices
    /\ mdInput \in TextsFrom(LinkLines, MaxLines)
    /\ mdHtml = <<>>
    /\ mdStage = 0

\* render(markdown) was called with a text of list lines
MdInitLists ==
    /\ mdOptions \in OptionChoices
    /\ mdInput \in TextsFrom(ListLines, MaxLines)
    /\ mdHtml = <<>>
    /\ mdStage = 0

MdNext ==
    \/ MdEscapeHtml
    \/ MdCodeBlocks
    \/ MdInlineCode
    \/ MdTables
    \/ MdLists
    \/ MdBlockquotes
    \/ MdHeadings
    \/ MdHorizontalRules
    \/ MdInlineFormatting
    \/ MdLinks
    \/ MdParagraphs

(***************************************************************************)
(*                     properties of MarkdownRenderer                      *)
(***************************************************************************)
PlainText(text) == \A i \in 1..Len(text) : IsWord(text[i]) \/ text[i] = " "

\* the text is a run of lines that each begin with '>' and quote plain text
QuoteRun(text) ==
    /\ text # <<>>
    /\ \A i \in 1..Len(Split(text)) :
           QuoteMatch(Split(text)[i]) /\ PlainText(QuoteText(Split(text)[i]))

\* C16: with sanitize set, a text that is a run of lines each beginning
\* with '>' is rendered as one blockquote element holding the texts of the
\* lines joined by line breaks.
C16_SanitizedBlockquote ==
    (mdStage = 11 /\ mdOptions.sanitize /\ QuoteRun(mdInput)) =>
        mdHtml = QuoteHtml([i \in 1..Len(Split(mdInput)) |-> QuoteText(Split(mdInput)[i])])

\* index of the first code block of text, or 0
FirstCodeBlock(text) ==
    LET p == First({i \in 1..Len(text) : CodeBlockAt(text, i)}, text)
    IN  IF p > Len(text) THEN 0 ELSE p

\* the trimmed text between the fences of the first code block of text
FencedCode(text) ==
    LET p == FirstCodeBlock(text)
    IN  TrimText(SubSeq(text, LangEnd(text, p) + 1, CloseFence(text, p) - 1))

\* what stands in html between the first <code class="language-..."> and
\* the </code> that follows
CodeContent(html) ==
    LET open == First({i \in 1..Len(html) : html[i] = CodeOpen}, html)
        from == First({i \in open..Len(html) : html[i] = "\">"}, html)
    IN  SubSeq(html, from + 1,
               First({i \in from..Len(html) : html[i] = "</code></pre>"}, html) - 1)

\* C17: once processCodeBlocks has run, and through every later stage, the
\* content of the <code> element of the first fenced code block is the
\* trimmed, escaped text between its fences.
C17_CodeUntouched ==
    LET escaped == escapeHtml(mdInput, mdOptions.sanitize)
    IN  (mdStage >= 2 /\ mdInput # <<>> /\ FirstCodeBlock(escaped) # 0) =>
            CodeContent(mdHtml) = FencedCode(escaped)

\* the marker style of a line: "ul", "ol", or "none" for a line that is no
\* list line
Kind(line) == IF UlMatch(line) THEN "ul" ELSE IF OlMatch(line) THEN "ol" ELSE "none"

\* the indexes of the list lines, and of those that begin a maximal run of
\* list lines with one marker style
ListLineIndexes(lines) == {i \in 1..Len(lines) : Kind(lines[i]) # "none"}
RunStarts(lines) ==
    {i \in ListLineIndexes(lines) : i = 1 \/ Kind(lines[i - 1]) # Kind(lines[i])}

\* the k-th smallest element of a set of numbers
Nth(S, k) == CHOOSE x \in S : Cardinality({y \in S : y < x}) = k - 1

ListOpenTags == {"<ul class=\"ai-unordered-list\">", "<ol class=\"ai-ordered-list\">"}
Positions(html, tags) == {p \in 1..Len(html) : html[p] \in tags}

\* html holds one list element per maximal run of lines, in the order of the
\* runs and of the kind of the run, and one <li> per list line, in the
\* order of the lines, in the list element of the run of its line
ListsOfRuns(lines, html) ==
    LET opens  == Positions(html, ListOpenTags)
        closes == Positions(html, {"</ul>", "</ol>"})
        items  == Positions(html, {"<li>"})
        ends   == Positions(html, {"</li>"})
        listed == ListLineIndexes(lines)
        starts == RunStarts(lines)
    IN  /\ Cardinality(opens) = Cardinality(starts)
        /\ Cardinality(closes) = Cardinality(starts)
        /\ Cardinality(items) = Cardinality(listed)
        /\ Cardinality(ends) = Cardinality(listed)
        /\ \A r \in 1..Cardinality(starts) :
               /\ html[Nth(opens, r)] =
                      (IF Kind(lines[Nth(starts, r)]) = "ul"
                       THEN "<ul class=\"ai-unordered-list\">"
                       ELSE "<ol class=\"ai-ordered-list\">")
               /\ html[Nth(closes, r)] =
                      (IF Kind(lines[Nth(starts, r)]) = "ul" THEN "</ul>" ELSE "</ol>")
               /\ Nth(opens, r) < Nth(closes, r)
               /\ r > 1 => Nth(closes, r - 1) < Nth(opens, r)
        /\ \A k \in 1..Cardinality(listed) :
               LET i == Nth(listed, k)
                   r == Cardinality({j \in starts : j <= i})
               IN  /\ Nth(opens, r) < Nth(items, k) /\ Nth(ends, k) < Nth(closes, r)
                   /\ SubSeq(html, Nth(items, k) + 1, Nth(ends, k) - 1) =
                          (IF Kind(lines[i]) = "ul" THEN UlItem(lines[i]) ELSE OlItem(lines[i]))

\* C27: the list stage of render() emits exactly one list element per maximal
\* run of consecutive list lines with the same marker style (an unordered run
\* directly followed by an ordered run gives one <ul> followed by one <ol>);
\* every item is in exactly one list, and the items keep their order.
C27_OneListPerRun ==
    [][ (mdStage = 4 /\ mdStage' = 5) => ListsOfRuns(Split(mdHtml), mdHtml') ]_vars

\* C27 witness: two unordered lines directly followed by an ordered line
\* have become one <ul> with two items followed by one <ol> with one item
C27_Witness ==
    /\ mdStage = 5
    /\ mdInput = <<"*", " ", "a", "\n", "-", " ", "b", "\n", "1", ".", " ", "a">>
    /\ mdHtml = <<"<ul class=\"ai-unordered-list\">", "<li>", "a", "</li>", "<li>", "b", "</li>",
                  "</ul>", "\n",
                  "<ol class=\"ai-ordered-list\">", "<li>", "a", "</li>", "</ol>">>

\* the line is three or more repetitions of one of '-', '*' and '_'
RepeatedRuleChar(line) ==
    /\ Len(line) >= 3
    /\ line[1] \in {"-", "*", "_"}
    /\ \A i \in 1..Len(line) : line[i] = line[1]

\* C28: the rule stage of render() turns a line into a horizontal rule only
\* if the line is three or more repetitions of one single character among
\* '-', '*' and '_'; a line that mixes these characters is left as it is.
C28_RuleOnlySameChar ==
    [][ (mdStage = 7 /\ mdStage' = 8) =>
            \A i \in 1..Len(Split(mdHtml)) :
                \/ RepeatedRuleChar(Split(mdHtml)[i])
                \/ Split(mdHtml')[i] = Split(mdHtml)[i] ]_vars

\* the text is one explicit link [label](url) whose url begins with
\* http:// or https://
ExplicitHttpLink(text) ==
    /\ text # <<>>
    /\ ExplicitLinkAt(text, 1)
    /\ UrlEnd(text, 1) = Len(text)
    /\ text[LabelEnd(text, 1) + 2] \in {"http://", "https://"}

\* what stands in html between the p-th element, an opening <a href=", and
\* the quote that ends the attribute
HrefAt(html, p) ==
    SubSeq(html, p + 1, First({i \in (p + 1)..Len(html) : html[i] = "\""}, html) - 1)

\* C29: with links enabled, an explicit link [text](url) whose url begins
\* with http:// or https:// is rendered as exactly one anchor element, whose
\* href is url.
C29_ExplicitLinkOneAnchor ==
    (mdStage >= 10 /\ mdOptions.enableLinks /\ ExplicitHttpLink(mdInput)) =>
        LET anchors == Positions(mdHtml, {"<a href=\""})
        IN  /\ Cardinality(anchors) = 1
            /\ Cardinality(Positions(mdHtml, {"</a>"})) = 1
            /\ \A p \in anchors :
                   HrefAt(mdHtml, p) =
                       SubSeq(mdInput, LabelEnd(mdInput, 1) + 2, Len(mdInput) - 1)

(***************************************************************************)
(*        ReaderPanelManager: the panels and the plugin's one client       *)
(***************************************************************************)
\* The panels of all documents send through the one LLMClient that
\* getLLMClient() returns.  A record of `sends` is one sendToLLM call with
\* the request it made: phase "open" while the request is in flight, then
\* "pendResolve", "pendReject" or "pendAbort" while the continuation of its
\* await is queued, then "done".  What the responses contain is the subject
\* of the streaming model above; here only the way a request ends matters.
PanelItems == {1, 2}
SendIds == 1..Len(sends)

\* a sendToLLM call that returned before it made a request
NoRequest(item) == [item |-> item, streaming |-> FALSE, phase |-> "done"]

\* handleUserMessage(reader, message, panel) from the send button (or the
\* Enter key, which clicks it): refused while the panel is streaming.  The
\* panel is marked streaming and sendToLLM runs up to its await: without a
\* client it reports and unmarks the panel; with enableStreaming it calls
\* streamChat, which replaces the client's abortController and sends the
\* request; otherwise it calls chat.
HandleUserMessage(item, enableStreaming) ==
    /\ continuations = <<>>
    /\ Len(sends) < MaxSends
    /\ ~streamingStates[item]
    /\ IF ~llmClient
       THEN /\ sends' = Append(sends, NoRequest(item))
            /\ UNCHANGED <<streamingStates, sendDisabled, panelController>>
       ELSE /\ streamingStates' = [streamingStates EXCEPT ![item] = TRUE]
            /\ sendDisabled' = [sendDisabled EXCEPT ![item] = TRUE]
            /\ sends' = Append(sends,
                   [item |-> item, streaming |-> enableStreaming, phase |-> "open"])
            /\ panelController' = IF enableStreaming THEN Len(sends) + 1
                                  ELSE panelController
    /\ UNCHANGED <<llmClient, continuations, notPanelVars>>

\* handleStopGeneration(reader) from the stop button, which is shown while
\* the panel is streaming: abortStream() on the shared client aborts the
\* request that owns the controller the client holds (its promise rejects
\* with an AbortError) and drops the controller; the panel is unmarked
HandleStopGeneration(item) ==
    /\ continuations = <<>>
    /\ streamingStates[item]
    /\ LET c == panelController
           hit == llmClient /\ c # 0 /\ sends[c].phase = "open"
       IN  /\ sends' = IF hit THEN [sends EXCEPT ![c].phase = "pendAbort"] ELSE sends
           /\ continuations' = IF hit THEN Append(continuations, c) ELSE continuations
    /\ panelController' = 0
    /\ streamingStates' = [streamingStates EXCEPT ![item] = FALSE]
    /\ sendDisabled' = [sendDisabled EXCEPT ![item] = FALSE]
    /\ UNCHANGED <<llmClient, notPanelVars>>

\* xhr.onload of the streaming request of send c: onComplete (2xx) or
\* onError unmarks the panel that sent it, and the promise settles
OnLoad(c, st) ==
    /\ continuations = <<>>
    /\ sends[c].phase = "open" /\ sends[c].streaming
    /\ sends' = [sends EXCEPT
           ![c].phase = IF st >= 200 /\ st < 300 THEN "pendResolve" ELSE "pendReject"]
    /\ streamingStates' = [streamingStates EXCEPT ![sends[c].item] = FALSE]
    /\ sendDisabled' = [sendDisabled EXCEPT ![sends[c].item] = FALSE]
    /\ continuations' = Append(continuations, c)
    /\ UNCHANGED <<llmClient, panelController, notPanelVars>>

\* xhr.onerror (and ontimeout) of the streaming request of send c: onError
\* unmarks the panel that sent it, and the promise rejects
OnError(c) ==
    /\ continuations = <<>>
    /\ sends[c].phase = "open" /\ sends[c].streaming
    /\ sends' = [sends EXCEPT ![c].phase = "pendReject"]
    /\ streamingStates' = [streamingStates EXCEPT ![sends[c].item] = FALSE]
    /\ sendDisabled' = [sendDisabled EXCEPT ![sends[c].item] = FALSE]
    /\ continuations' = Append(continuations, c)
    /\ UNCHANGED <<llmClient, panelController, notPanelVars>>

\* the chat() call of send c settles, after its retries: with a response
\* (ok) or with the last error
ChatSettled(c, ok) ==
    /\ continuations = <<>>
    /\ sends[c].phase = "open" /\ ~sends[c].streaming
    /\ sends' = [sends EXCEPT ![c].phase = IF ok THEN "pendResolve" ELSE "pendReject"]
    /\ continuations' = Append(continuations, c)
    /\ UNCHANGED <<llmClient, streamingStates, sendDisabled, panelController, notPanelVars>>

\* whether the continuation of send c unmarks the panel: after chat() it
\* does on either outcome; after streamChat() only the catch block does,
\* which runs when streamChat rethrew (not when an AbortError made it return)
UnmarksOnResume(c) == ~sends[c].streaming \/ sends[c].phase = "pendReject"

\* the continuation at the head of the queue runs.  For a streaming send,
\* streamChat resumes (an AbortError makes it return; another error is
\* passed to onError and rethrown; finally the client's abortController is
\* set to null) and then sendToLLM resumes after its await.
SendResume ==
    /\ continuations # <<>>
    /\ LET c == Head(continuations)
           item == sends[c].item
       IN  /\ sends' = [sends EXCEPT ![c].phase = "done"]
           /\ streamingStates' = IF UnmarksOnResume(c)
                                 THEN [streamingStates EXCEPT ![item] = FALSE]
                                 ELSE streamingStates
           /\ sendDisabled' = IF UnmarksOnResume(c)
                              THEN [sendDisabled EXCEPT ![item] = FALSE]
                              ELSE sendDisabled
           /\ panelController' = IF sends[c].streaming THEN 0 ELSE panelController
    /\ continuations' = Tail(continuations)
    /\ UNCHANGED <<llmClient, notPanelVars>>

\* the request of send c ends in one of the ways the transport ends it
Settle(c) ==
    \/ \E st \in Statuses : OnLoad(c, st)
    \/ OnError(c)
    \/ \E ok \in BOOLEAN : ChatSettled(c, ok)

\* no panel has sent anything
PanelIdle ==
    /\ streamingStates = [item \in PanelItems |-> FALSE]
    /\ sendDisabled = [item \in PanelItems |-> FALSE]
    /\ sends = <<>>
    /\ panelController = 0
    /\ continuations = <<>>

\* the plugin was started with an API key: the client exists
PanelInit == llmClient = TRUE /\ PanelIdle

\* the plugin was started with or without an API key
PanelStart == llmClient \in BOOLEAN /\ PanelIdle

PanelNext ==
    \/ \E item \in PanelItems, enableStreaming \in BOOLEAN :
           HandleUserMessage(item, enableStreaming)
    \/ \E item \in PanelItems : HandleStopGeneration(item)
    \/ \E c \in SendIds, st \in Statuses : OnLoad(c, st)
    \/ \E c \in SendIds : OnError(c)
    \/ \E c \in SendIds, ok \in BOOLEAN : ChatSettled(c, ok)
    \/ SendResume

\* every request ends and every queued continuation runs; nothing obliges
\* a user to press a button
PanelFairness ==
    /\ \A c \in 1..MaxSends : WF_vars(c \in SendIds /\ Settle(c))
    /\ WF_vars(SendResume)

(***************************************************************************)
(*                   properties of ReaderPanelManager                      *)
(***************************************************************************)
\* C23: every message sent from a panel eventually returns the panel to the
\* not-streaming state (streamingStates false and the send button enabled),
\* however its request ends, also when several panels send and stop
\* through the shared client.
C23_PanelReturns ==
    \A item \in PanelItems :
        streamingStates[item] ~> (~streamingStates[item] /\ ~sendDisabled[item])

Init == SessInit /\ ChatInit /\ StreamInit /\ TestInit /\ CfgInit /\ MdIdle /\ PanelInit

\* the state in which render() has just been called
InitRender == SessInit /\ ChatInit /\ StreamInit /\ TestInit /\ CfgInit /\ MdInit /\ PanelInit

SpecSession == Init /\ [][SessNext]_vars
SpecChat    == Init /\ [][ChatNext]_vars
SpecStream  == Init /\ [][StreamNext]_vars
SpecClient  == Init /\ [][ClientNext]_vars
SpecTest    == Init /\ [][TestNext]_vars
SpecConfig  == Init /\ [][CfgNext]_vars
SpecTemplates == Init /\ [][TplNext]_vars

\* the state in which load() has returned, nothing having been saved before
InitLoaded ==
    /\ SessInit /\ ChatInit /\ StreamInit /\ TestInit /\ MdIdle /\ PanelInit
    /\ prefs = NoPrefs
    /\ config = LoadedConfig(NoPrefs)
    /\ promptTemplates = loadPromptTemplates(NoPrefs)
    /\ cfgLast = LastOp("load", "", NoInput, "", FALSE)
    /\ cfgOps = 0
SpecPrompt  == InitLoaded /\ [][PromptNext]_vars
SpecMarkdown == InitRender /\ [][MdNext]_vars

\* the state in which render() has just been called with a text of list lines
InitLists == SessInit /\ ChatInit /\ StreamInit /\ TestInit /\ CfgInit /\ MdInitLists /\ PanelInit
SpecLists == InitLists /\ [][MdNext]_vars

\* the states in which render() has just been called with a text of rule
\* lines, and with a text of link lines
InitRules == SessInit /\ ChatInit /\ StreamInit /\ TestInit /\ CfgInit /\ MdInitRules /\ PanelInit
InitLinks == SessInit /\ ChatInit /\ StreamInit /\ TestInit /\ CfgInit /\ MdInitLinks /\ PanelInit
SpecRules == InitRules /\ [][MdNext]_vars
SpecLinks == InitLinks /\ [][MdNext]_vars

\* the state in which the plugin has started
InitPanel == SessInit /\ ChatInit /\ StreamInit /\ TestInit /\ CfgInit /\ MdIdle /\ PanelStart
SpecPanel == InitPanel /\ [][PanelNext]_vars /\ PanelFairness

====
